---- MODULE Spec2Model ----
(***************************************************************************)
(* Verification model of the classic load balancer task                    *)
(* (upup/pkg/fi/cloudup/awstasks/classic_load_balancer.go) and of the      *)
(* terraform value writer it renders through.                              *)
(*                                                                         *)
(* Go pointers and optional values are sequences of length 0 (nil) or 1.   *)
(* Go maps are TLA+ functions; the order in which `range` visits a map is  *)
(* a nondeterministic choice of a permutation of its keys.                 *)
(***************************************************************************)
EXTENDS Integers, Sequences, FiniteSets, TLC

VARIABLES
    e,        \* the desired task (receiver / argument e of every handler)
    e0,       \* e as it was before the handler that ran last
    a,        \* the actual snapshot returned by Find (nil when absent)
    changes,  \* the changes record handed to validation and rendering
    cloud,    \* the remote load balancer as the cloud API holds it
    calls,    \* cloud API calls issued so far, in order
    pc,       \* position of the task in its reconciliation
    ret,      \* what the handler that ran last returned
    tf,       \* resource blocks emitted by RenderTerraform, one entry per execution
    lookup,   \* input and result of a stand-alone lookup
    w,        \* input and outputs of the terraform value writer and of TerraformLink
    exec,     \* the dependency executor: the graph and the state of every task
    opts      \* the cluster spec handed to the options builder, and its earlier values

vars == <<e, e0, a, changes, cloud, calls, pc, ret, tf, lookup, w, exec, opts>>

-----------------------------------------------------------------------------
(* Bounds *)

\* longest subnet / security-group reference list of a desired task
MaxRefs == 2
\* number of executions of RenderTerraform over one desired state
MaxRuns == 2
\* number of result pages of a DescribeLoadBalancers listing
MaxPages == 2
\* number of load balancer descriptions on one result page
MaxPerPage == 2

-----------------------------------------------------------------------------
(* Optional values, fi.ValueOf, strings *)

None == <<>>
Some(v) == <<v>>
IsNil(p) == p = <<>>
Deref(p) == p[1]

\* fi.ValueOf / aws.ToString on a *string: the zero value for nil
ValueOfStr(p) == IF IsNil(p) THEN "" ELSE p[1]
\* fi.ValueOf on a *bool
ValueOfBool(p) == IF IsNil(p) THEN FALSE ELSE p[1]

Range(s) == {s[i] : i \in DOMAIN s}

\* Every string the model compares with Go's < , in ascending byte order.
StringOrder ==
    <<"", "\"", ".", "Name", "a", "access_logs", "aws:cloudformation:stack-name",
      "aws_security_group", "aws_subnet", "b", "bucket", "bucket_prefix",
      "connection_draining", "connection_draining_timeout",
      "cross_zone_load_balancing", "enabled", "health_check", "healthy_threshold",
      "id", "idle_timeout", "instance_port", "instance_protocol", "internal",
      "interval", "k", "k2", "lb_port", "lb_protocol", "listener", "name", "s1", "s2",
      "s3", "security_groups", "sgA", "sgB", "ssl_certificate_id", "subnets", "tags",
      "target", "timeout", "unhealthy_threshold">>

StrRank(s) == CHOOSE i \in DOMAIN StringOrder : StringOrder[i] = s
StrLess(x, y) == StrRank(x) < StrRank(y)

\* All orders in which the elements of a finite set can be visited.
Orders(S) ==
    {s \in [1..Cardinality(S) -> S] : \A x \in S : \E i \in DOMAIN s : s[i] = x}

-----------------------------------------------------------------------------
(* strconv.ParseInt / strconv.FormatInt: decimal strings are sequences of
   one-character strings. *)

Digits == <<"0", "1", "2", "3", "4", "5", "6", "7", "8", "9">>
IsDigit(c) == \E i \in DOMAIN Digits : Digits[i] = c
DigitVal(c) == (CHOOSE i \in DOMAIN Digits : Digits[i] = c) - 1

RECURSIVE ParseDigits(_, _)
ParseDigits(s, acc) ==
    IF s = <<>> THEN acc ELSE ParseDigits(Tail(s), acc * 10 + DigitVal(Head(s)))

\* strconv.ParseInt(s, 10, 32): ok is FALSE on a malformed string
ParseInt(s) ==
    IF s = <<>> \/ \E i \in DOMAIN s : ~IsDigit(s[i])
    THEN [ok |-> FALSE, val |-> 0]
    ELSE [ok |-> TRUE, val |-> ParseDigits(s, 0)]

RECURSIVE FormatDigits(_)
FormatDigits(n) ==
    IF n < 10 THEN <<Digits[n + 1]>>
    ELSE Append(FormatDigits(n \div 10), Digits[(n % 10) + 1])

\* strconv.FormatInt(n, 10) for n >= 0
FormatInt(n) == FormatDigits(n)

-----------------------------------------------------------------------------
(* Errors *)

\* fi.RequiredField(field)
RequiredField(field) == [type |-> "RequiredField", detail |-> field]
\* fmt.Errorf(msg, ...) with %v / %q verbs: a plain error carrying text only
Errorf(msg) == [type |-> "errorString", detail |-> msg]
\* an error value returned by the cloud API, with its error code
ApiError(code) == [type |-> "awserr", detail |-> code]
\* fmt.Errorf("...: %w", err): a *fmt.wrapError around err
WrapError(err) == [type |-> "wrapError", detail |-> err.detail]

-----------------------------------------------------------------------------
(* The task record: type ClassicLoadBalancer *)

\* &Subnet{Name, ID} / &SecurityGroup{Name, ID}: a reference to another task
Ref(name, id) == [Name |-> name, ID |-> id]

\* ClassicLoadBalancerListener
Listener(port, cert) == [InstancePort |-> port, SSLCertificateID |-> cert]

\* a nil map / an empty Go map
EmptyMap == [x \in {} |-> ""]

\* the zero ClassicLoadBalancer: &ClassicLoadBalancer{}
ZeroTask ==
    [Name |-> None, LoadBalancerName |-> None, DNSName |-> None, HostedZoneId |-> None,
     Subnets |-> <<>>, SecurityGroups |-> <<>>, Listeners |-> EmptyMap, Scheme |-> None,
     HealthCheck |-> None, AccessLog |-> None, ConnectionDraining |-> None,
     ConnectionSettings |-> None, CrossZoneLoadBalancing |-> None,
     Tags |-> EmptyMap, Shared |-> None]

-----------------------------------------------------------------------------
(* Normalize *)

\* OrderSubnetsById.Less / OrderSecurityGroupsById.Less
LessById(x, y) == StrLess(ValueOfStr(x.ID), ValueOfStr(y.ID))

RECURSIVE InsertStable(_, _)
InsertStable(x, s) ==
    IF s = <<>> THEN <<x>>
    ELSE IF LessById(x, Head(s)) THEN <<x>> \o s
    ELSE <<Head(s)>> \o InsertStable(x, Tail(s))

\* sort.Stable over a reference list ordered by LessById
RECURSIVE SortStableById(_)
SortStableById(s) ==
    IF s = <<>> THEN <<>>
    ELSE InsertStable(s[Len(s)], SortStableById(SubSeq(s, 1, Len(s) - 1)))

\* a plausible slip: only the subnet list is sorted
NormalizeSubnetsOnly(t) == [t EXCEPT !.Subnets = SortStableById(t.Subnets)]

\* (e *ClassicLoadBalancer) Normalize: sorts both reference lists in place
Normalize(t) ==
    [t EXCEPT !.Subnets = SortStableById(t.Subnets),
              !.SecurityGroups = SortStableById(t.SecurityGroups)]

-----------------------------------------------------------------------------
(* ShouldCreate and CheckChanges *)

\* ShouldCreate(a, e, changes): false exactly for a shared task
ShouldCreate(act, des, ch) == IF ValueOfBool(des.Shared) THEN FALSE ELSE TRUE

\* a plausible slip: Subnets is checked before SecurityGroups
CheckChangesSwapped(act, des, ch) ==
    IF ~IsNil(act) THEN None
    ELSE IF ValueOfStr(des.Name) = "" THEN Some(RequiredField("Name"))
    ELSE IF ~ValueOfBool(des.Shared) /\ Len(des.Subnets) = 0
        THEN Some(RequiredField("Subnets"))
    ELSE IF ~ValueOfBool(des.Shared) /\ Len(des.SecurityGroups) = 0
        THEN Some(RequiredField("SecurityGroups"))
    ELSE IF ~IsNil(des.AccessLog) /\ IsNil(Deref(des.AccessLog).Enabled)
        THEN Some(RequiredField("Acceslog.Enabled"))
    ELSE IF ~IsNil(des.AccessLog) /\ Deref(Deref(des.AccessLog).Enabled)
            /\ IsNil(Deref(des.AccessLog).S3BucketName)
        THEN Some(RequiredField("Acceslog.S3Bucket"))
    ELSE IF ~IsNil(des.ConnectionDraining) /\ IsNil(Deref(des.ConnectionDraining).Enabled)
        THEN Some(RequiredField("ConnectionDraining.Enabled"))
    ELSE IF ~IsNil(des.CrossZoneLoadBalancing)
            /\ IsNil(Deref(des.CrossZoneLoadBalancing).Enabled)
        THEN Some(RequiredField("CrossZoneLoadBalancing.Enabled"))
    ELSE None

\* a plausible slip: the fields are required on an update as well
CheckChangesAlways(act, des, ch) ==
    IF ValueOfStr(des.Name) = "" THEN Some(RequiredField("Name"))
    ELSE IF ~ValueOfBool(des.Shared) /\ Len(des.SecurityGroups) = 0
        THEN Some(RequiredField("SecurityGroups"))
    ELSE IF ~ValueOfBool(des.Shared) /\ Len(des.Subnets) = 0
        THEN Some(RequiredField("Subnets"))
    ELSE IF ~IsNil(des.AccessLog) /\ IsNil(Deref(des.AccessLog).Enabled)
        THEN Some(RequiredField("Acceslog.Enabled"))
    ELSE IF ~IsNil(des.AccessLog) /\ Deref(Deref(des.AccessLog).Enabled)
            /\ IsNil(Deref(des.AccessLog).S3BucketName)
        THEN Some(RequiredField("Acceslog.S3Bucket"))
    ELSE IF ~IsNil(des.ConnectionDraining) /\ IsNil(Deref(des.ConnectionDraining).Enabled)
        THEN Some(RequiredField("ConnectionDraining.Enabled"))
    ELSE IF ~IsNil(des.CrossZoneLoadBalancing)
            /\ IsNil(Deref(des.CrossZoneLoadBalancing).Enabled)
        THEN Some(RequiredField("CrossZoneLoadBalancing.Enabled"))
    ELSE None

\* CheckChanges(a, e, changes): the error returned, None for nil
CheckChanges(act, des, ch) ==
    IF ~IsNil(act) THEN None
    ELSE IF ValueOfStr(des.Name) = "" THEN Some(RequiredField("Name"))
    ELSE IF ~ValueOfBool(des.Shared) /\ Len(des.SecurityGroups) = 0
        THEN Some(RequiredField("SecurityGroups"))
    ELSE IF ~ValueOfBool(des.Shared) /\ Len(des.Subnets) = 0
        THEN Some(RequiredField("Subnets"))
    ELSE IF ~IsNil(des.AccessLog) /\ IsNil(Deref(des.AccessLog).Enabled)
        THEN Some(RequiredField("Acceslog.Enabled"))
    ELSE IF ~IsNil(des.AccessLog) /\ Deref(Deref(des.AccessLog).Enabled)
            /\ IsNil(Deref(des.AccessLog).S3BucketName)
        THEN Some(RequiredField("Acceslog.S3Bucket"))
    ELSE IF ~IsNil(des.ConnectionDraining) /\ IsNil(Deref(des.ConnectionDraining).Enabled)
        THEN Some(RequiredField("ConnectionDraining.Enabled"))
    ELSE IF ~IsNil(des.CrossZoneLoadBalancing)
            /\ IsNil(Deref(des.CrossZoneLoadBalancing).Enabled)
        THEN Some(RequiredField("CrossZoneLoadBalancing.Enabled"))
    ELSE None

-----------------------------------------------------------------------------
(* Lookups of the remote load balancer *)

\* DNS names are sequences of text fragments; "." alone is the trailing dot.
ValueOfDNS(p) == IF IsNil(p) THEN <<>> ELSE p[1]

\* strings.TrimSuffix(s, ".")
TrimSuffixDot(s) ==
    IF s # <<>> /\ s[Len(s)] = "." THEN SubSeq(s, 1, Len(s) - 1) ELSE s

\* elbtypes.LoadBalancerDescription
LBDescription(name, dns, zone) ==
    [LoadBalancerName |-> name, DNSName |-> dns, CanonicalHostedZoneNameID |-> zone,
     Scheme |-> None, Subnets |-> <<>>, SecurityGroups |-> <<>>,
     ListenerDescriptions |-> <<>>, HealthCheck |-> None]

RECURSIVE Flatten(_)
Flatten(pages) ==
    IF pages = <<>> THEN <<>> ELSE Head(pages) \o Flatten(Tail(pages))

\* describeLoadBalancers: walks the result pages of a listing, keeping what the
\* filter accepts; an error of any page is returned wrapped with %w.
\* A listing is the pages NextPage returned and, when a NextPage failed, its
\* error (the pages fetched before it are then discarded).
\* The filter callback is a function over the load balancers listed.
describeLoadBalancers(listing, filter) ==
    IF ~IsNil(listing.err)
    THEN [found |-> <<>>, err |-> Some(WrapError(Deref(listing.err)))]
    ELSE [found |-> SelectSeq(Flatten(listing.pages), LAMBDA lb : filter[lb]), err |-> None]

\* the load balancers a listing can hand to the filter
Listed(listing) == Range(Flatten(listing.pages))

\* err.(awserr.Error): the assertion looks at the dynamic type of err itself,
\* it does not unwrap
IsAwsErr(err) == err.type = "awserr"

\* a plausible slip: the first match is returned whatever the number of matches
findLoadBalancerByLoadBalancerNameFirst(listing, loadBalancerName) ==
    LET r == describeLoadBalancers(listing,
                 [lb \in Listed(listing) |->
                     ValueOfStr(lb.LoadBalancerName) = loadBalancerName])
    IN  IF ~IsNil(r.err)
        THEN IF IsAwsErr(Deref(r.err)) /\ Deref(r.err).detail = "LoadBalancerNotFound"
             THEN [lb |-> None, err |-> None]
             ELSE [lb |-> None, err |-> Some(Errorf("error listing ELBs"))]
        ELSE IF Len(r.found) = 0 THEN [lb |-> None, err |-> None]
        ELSE [lb |-> Some(r.found[1]), err |-> None]

\* findLoadBalancerByLoadBalancerName
findLoadBalancerByLoadBalancerName(listing, loadBalancerName) ==
    LET r == describeLoadBalancers(listing,
                 [lb \in Listed(listing) |->
                     ValueOfStr(lb.LoadBalancerName) = loadBalancerName])
    IN  IF ~IsNil(r.err)
        THEN IF IsAwsErr(Deref(r.err)) /\ Deref(r.err).detail = "LoadBalancerNotFound"
             THEN [lb |-> None, err |-> None]
             ELSE [lb |-> None, err |-> Some(Errorf("error listing ELBs"))]
        ELSE IF Len(r.found) = 0 THEN [lb |-> None, err |-> None]
        ELSE IF Len(r.found) # 1
            THEN [lb |-> None, err |-> Some(Errorf("Found multiple ELBs with name"))]
        ELSE [lb |-> Some(r.found[1]), err |-> None]

\* the filter of findLoadBalancerByAlias
AliasMatches(lb, matchDnsName, matchHostedZoneId) ==
    IF matchHostedZoneId # ValueOfStr(lb.CanonicalHostedZoneNameID) THEN FALSE
    ELSE LET lbDnsName == TrimSuffixDot(ValueOfDNS(lb.DNSName))
         IN  lbDnsName = matchDnsName \/ <<"dualstack.">> \o lbDnsName = matchDnsName

\* findLoadBalancerByAlias
findLoadBalancerByAlias(listing, alias) ==
    LET dnsName == ValueOfDNS(alias.DNSName)
        matchDnsName == TrimSuffixDot(dnsName)
        matchHostedZoneId == ValueOfStr(alias.HostedZoneId)
        r == describeLoadBalancers(listing,
                 [lb \in Listed(listing) |->
                     AliasMatches(lb, matchDnsName, matchHostedZoneId)])
    IN  IF matchDnsName = <<>>
        THEN [lb |-> None, err |-> Some(Errorf("DNSName not set on AliasTarget"))]
        ELSE IF ~IsNil(r.err) THEN [lb |-> None, err |-> Some(Errorf("error listing ELBs"))]
        ELSE IF Len(r.found) = 0 THEN [lb |-> None, err |-> None]
        ELSE IF Len(r.found) # 1
            THEN [lb |-> None, err |-> Some(Errorf("Found multiple ELBs with DNSName"))]
        ELSE [lb |-> Some(r.found[1]), err |-> None]

-----------------------------------------------------------------------------
(* Find: discovery of the actual state *)

\* strings.HasPrefix(key, "aws:cloudformation:") over the tag keys of the model
HasCloudFormationPrefix(key) == key \in {"aws:cloudformation:stack-name"}

\* Restriction of a map to some of its keys
Restrict(m, keys) == [k \in keys |-> m[k]]

\* cloud.FindELBByNameTag(name): the load balancer carrying that Name tag
FindELBByNameTag(cl, name) ==
    IF ~IsNil(cl.lb) /\ cl.nameTag = name THEN cl.lb ELSE None

\* cloud.DescribeELBTags(names): a map from each named load balancer to its tags;
\* the set of its keys and the tags of the one load balancer the cloud holds
DescribeELBTags(cl, names) ==
    [keys |-> {n \in names : ~IsNil(cl.lb) /\ ValueOfStr(Deref(cl.lb).LoadBalancerName) = n},
     tags |-> cl.tags]

\* tagMap[key]: the zero value (no tags) for a key the map does not hold
TagMapAt(tagMap, key) == IF key \in tagMap.keys THEN tagMap.tags ELSE EmptyMap

\* a plausible slip: the ids of the two lists are compared in order
subnetSlicesEqualOrdered(l, r) ==
    /\ \A i \in DOMAIN r : ~IsNil(r[i].ID)
    /\ Len(l) = Len(r)
    /\ \A i \in DOMAIN l : l[i].ID = r[i].ID

\* subnetSlicesEqualIgnoreOrder(l, r): r needs every ID set, then the ids of the
\* two lists are compared as multisets
subnetSlicesEqualIgnoreOrder(l, r) ==
    /\ \A i \in DOMAIN r : ~IsNil(r[i].ID)
    /\ Len(l) = Len(r)
    /\ \A x \in {l[i].ID : i \in DOMAIN l} \cup {r[i].ID : i \in DOMAIN r} :
          Cardinality({i \in DOMAIN l : l[i].ID = x})
              = Cardinality({i \in DOMAIN r : r[i].ID = x})

\* the listener map Find builds from lb.ListenerDescriptions
ActualListeners(lds) ==
    [p \in {FormatInt(lds[i].LoadBalancerPort) : i \in DOMAIN lds} |->
        LET i == CHOOSE j \in DOMAIN lds :
                    /\ FormatInt(lds[j].LoadBalancerPort) = p
                    /\ \A k \in DOMAIN lds :
                          FormatInt(lds[k].LoadBalancerPort) = p => k <= j
        IN  Listener(lds[i].InstancePort, ValueOfStr(lds[i].SSLCertificateId))]

\* the attribute blocks Find fills in from findELBAttributes
ActualAccessLog(at) ==
    Some([Enabled |-> Some(at.AccessLog.Enabled), EmitInterval |-> at.AccessLog.EmitInterval,
          S3BucketName |-> at.AccessLog.S3BucketName,
          S3BucketPrefix |-> at.AccessLog.S3BucketPrefix])

ActualConnectionDraining(at) ==
    Some([Enabled |-> IF at.ConnectionDraining.Enabled THEN Some(TRUE) ELSE None,
          Timeout |-> at.ConnectionDraining.Timeout])

\* a plausible slip: the DNS name is taken from the snapshot even when the
\* desired task sets it
BackfillAlways(des, actual) ==
    LET des1 == [des EXCEPT
                    !.DNSName = actual.DNSName,
                    !.HostedZoneId = IF IsNil(des.HostedZoneId) THEN actual.HostedZoneId ELSE @,
                    !.LoadBalancerName =
                        IF IsNil(des.LoadBalancerName) THEN actual.LoadBalancerName ELSE @]
    IN  IF ValueOfStr(des1.LoadBalancerName) # ValueOfStr(actual.LoadBalancerName)
        THEN [des1 EXCEPT !.LoadBalancerName = actual.LoadBalancerName]
        ELSE des1

\* Find, the assignments to e: the unset identity fields are filled in from
\* the snapshot, and a load balancer name that differs from the one found is
\* replaced by it
Backfill(des, actual) ==
    LET des1 == [des EXCEPT
                    !.DNSName = IF IsNil(des.DNSName) THEN actual.DNSName ELSE @,
                    !.HostedZoneId = IF IsNil(des.HostedZoneId) THEN actual.HostedZoneId ELSE @,
                    !.LoadBalancerName =
                        IF IsNil(des.LoadBalancerName) THEN actual.LoadBalancerName ELSE @]
    IN  IF ValueOfStr(des1.LoadBalancerName) # ValueOfStr(actual.LoadBalancerName)
        THEN [des1 EXCEPT !.LoadBalancerName = actual.LoadBalancerName]
        ELSE des1

\* Find(c). fail names the cloud call that returns an error ("none": all succeed).
\* Returns the snapshot, the desired task as Find leaves it, the error, and
\* whether the call panicked on a nil pointer.
Find(des, cl, fail) ==
    LET lb == FindELBByNameTag(cl, ValueOfStr(des.Name))
        d == Deref(lb)
        tagMap == DescribeELBTags(cl, {ValueOfStr(d.LoadBalancerName)})
        tags == TagMapAt(tagMap, Deref(des.LoadBalancerName))
        actual0 ==
            [ZeroTask EXCEPT
                !.Name = des.Name,
                !.LoadBalancerName = d.LoadBalancerName,
                !.DNSName = d.DNSName,
                !.HostedZoneId = d.CanonicalHostedZoneNameID,
                !.Scheme = d.Scheme,
                !.Tags = Restrict(tags, {k \in DOMAIN tags : ~HasCloudFormationPrefix(k)}),
                !.Subnets = [i \in DOMAIN d.Subnets |-> Ref(None, Some(d.Subnets[i]))],
                !.SecurityGroups =
                    [i \in DOMAIN d.SecurityGroups |-> Ref(None, Some(d.SecurityGroups[i]))],
                !.Listeners = ActualListeners(d.ListenerDescriptions),
                !.HealthCheck = d.HealthCheck,
                !.AccessLog = IF IsNil(cl.attrs) THEN None ELSE ActualAccessLog(Deref(cl.attrs)),
                !.ConnectionDraining =
                    IF IsNil(cl.attrs) THEN None ELSE ActualConnectionDraining(Deref(cl.attrs)),
                !.ConnectionSettings =
                    IF IsNil(cl.attrs) THEN None
                    ELSE Some([IdleTimeout |-> Deref(cl.attrs).ConnectionSettings.IdleTimeout]),
                !.CrossZoneLoadBalancing =
                    IF IsNil(cl.attrs) THEN None
                    ELSE Some([Enabled |-> Some(Deref(cl.attrs).CrossZoneLoadBalancing.Enabled)])]
        same == subnetSlicesEqualIgnoreOrder(actual0.Subnets, des.Subnets)
        \* actual.Subnets = e.Subnets shares the backing array with e.Subnets
        actual1 == IF same THEN [actual0 EXCEPT !.Subnets = des.Subnets] ELSE actual0
        des2 == Backfill(des, actual1)
        \* actual.Normalize sorts actual.Subnets in place, and with it the array
        \* e.Subnets points to when the two share it
        actual2 == Normalize(actual1)
        des3 == IF same THEN [des2 EXCEPT !.Subnets = actual2.Subnets] ELSE des2
        Fail(err) == [a |-> None, e |-> des, err |-> Some(err), panic |-> FALSE]
    IN  IF fail = "FindELBByNameTag" THEN Fail(ApiError("Throttling"))
        ELSE IF IsNil(lb) THEN [a |-> None, e |-> des, err |-> None, panic |-> FALSE]
        ELSE IF fail = "DescribeELBTags" THEN Fail(ApiError("Throttling"))
        ELSE IF IsNil(des.LoadBalancerName)
            THEN [a |-> None, e |-> des, err |-> None, panic |-> TRUE]
        ELSE IF fail = "findHealthCheck" THEN Fail(Errorf("unknown health check target"))
        ELSE IF fail = "findELBAttributes" THEN Fail(ApiError("Throttling"))
        ELSE [a |-> Some(actual2), e |-> des3, err |-> None, panic |-> FALSE]

-----------------------------------------------------------------------------
(* The changes record *)

IdSet(refs) == {refs[i].ID : i \in DOMAIN refs}

\* The changes record between the snapshot and the desired task: a field is
\* set to the desired value when the desired task sets it and the snapshot is
\* absent or differs; reference lists are compared by identifier, as sets.
\* Slice and map fields are optional in the record (None for a nil field).
BuildChanges(act, des) ==
    LET absent == IsNil(act)
        ac == IF absent THEN ZeroTask ELSE Deref(act)
        Ptr(f) == IF ~IsNil(des[f]) /\ (absent \/ ac[f] # des[f]) THEN des[f] ELSE None
        Refs(f) == IF des[f] # <<>> /\ (absent \/ IdSet(ac[f]) # IdSet(des[f]))
                   THEN Some(des[f]) ELSE None
        Map(f) == IF DOMAIN des[f] # {} /\ (absent \/ ac[f] # des[f])
                  THEN Some(des[f]) ELSE None
    IN  [Name |-> Ptr("Name"), LoadBalancerName |-> Ptr("LoadBalancerName"),
         DNSName |-> Ptr("DNSName"), HostedZoneId |-> Ptr("HostedZoneId"),
         Subnets |-> Refs("Subnets"), SecurityGroups |-> Refs("SecurityGroups"),
         Listeners |-> Map("Listeners"), Scheme |-> Ptr("Scheme"),
         HealthCheck |-> Ptr("HealthCheck"), AccessLog |-> Ptr("AccessLog"),
         ConnectionDraining |-> Ptr("ConnectionDraining"),
         ConnectionSettings |-> Ptr("ConnectionSettings"),
         CrossZoneLoadBalancing |-> Ptr("CrossZoneLoadBalancing"),
         Tags |-> Map("Tags"), Shared |-> Ptr("Shared")]

-----------------------------------------------------------------------------
(* The cloud API as RenderAWS uses it *)

\* slice.GetUniqueStrings(main, extra): the items of extra that main lacks,
\* in the order of extra
GetUniqueStrings(main, extra) == SelectSeq(extra, LAMBDA x : x \notin Range(main))

\* (e *ClassicLoadBalancerListener) mapToAWS(loadBalancerPort)
mapToAWS(l, loadBalancerPort) ==
    [LoadBalancerPort |-> loadBalancerPort, InstancePort |-> l.InstancePort,
     Protocol |-> IF l.SSLCertificateID # "" THEN "SSL" ELSE "TCP",
     InstanceProtocol |-> IF l.SSLCertificateID # "" THEN "SSL" ELSE "TCP",
     SSLCertificateId |-> IF l.SSLCertificateID # "" THEN Some(l.SSLCertificateID) ELSE None]

\* the elbtypes.Listener list a loop over a listener map builds, visiting the
\* keys in the given order
AwsListeners(m, order) ==
    [i \in DOMAIN order |-> mapToAWS(m[order[i]], ParseInt(order[i]).val)]

IdStrings(refs) == [i \in DOMAIN refs |-> ValueOfStr(refs[i].ID)]

\* the DNS name and hosted zone the cloud assigns to a new load balancer
NewDNSName == <<"new.elb.amazonaws.com">>
NewHostedZone == "ZNEW"

\* Remote effect of CreateLoadBalancer
CloudCreate(cl, name, scheme, subnets, sgs, listeners) ==
    [cl EXCEPT !.lb = Some([LoadBalancerName |-> name, DNSName |-> Some(NewDNSName),
                            CanonicalHostedZoneNameID |-> Some(NewHostedZone),
                            Scheme |-> scheme, Subnets |-> subnets, SecurityGroups |-> sgs,
                            ListenerDescriptions |-> listeners, HealthCheck |-> None]),
               !.tags = EmptyMap, !.attrs = None]

\* Remote effect of DetachLoadBalancerFromSubnets / AttachLoadBalancerToSubnets
CloudDetach(cl, ids) ==
    [cl EXCEPT !.lb[1].Subnets = SelectSeq(@, LAMBDA x : x \notin Range(ids))]
CloudAttach(cl, ids) ==
    [cl EXCEPT !.lb[1].Subnets = @ \o SelectSeq(ids, LAMBDA x : x \notin Range(@))]

\* Remote effect of ApplySecurityGroupsToLoadBalancer
CloudApplySecurityGroups(cl, ids) == [cl EXCEPT !.lb[1].SecurityGroups = ids]

\* Remote effect of DeleteLoadBalancerListeners(ports)
CloudDeleteListeners(cl, ports) ==
    [cl EXCEPT !.lb[1].ListenerDescriptions =
        SelectSeq(@, LAMBDA l : l.LoadBalancerPort \notin ports)]

\* CreateLoadBalancerListeners is refused (DuplicateListener) when a requested
\* port already has a listener with another definition
DuplicateListener(cl, listeners) ==
    \E i \in DOMAIN listeners : \E old \in Range(Deref(cl.lb).ListenerDescriptions) :
        old.LoadBalancerPort = listeners[i].LoadBalancerPort /\ old # listeners[i]

\* Remote effect of CreateLoadBalancerListeners
CloudCreateListeners(cl, listeners) ==
    [cl EXCEPT !.lb[1].ListenerDescriptions =
        @ \o SelectSeq(listeners, LAMBDA l : l \notin Range(@))]

\* Remote effect of t.AddELBTags(name, tags) and t.RemoveELBTags(name, tags)
CloudAddTags(cl, tags) ==
    [cl EXCEPT !.tags = [k \in DOMAIN @ \cup DOMAIN tags |->
                            IF k \in DOMAIN tags THEN tags[k] ELSE @[k]]]
CloudRemoveTags(cl, expected) ==
    [cl EXCEPT !.tags = Restrict(@, DOMAIN @ \cap DOMAIN expected)]

\* the listing DescribeLoadBalancers answers for one load balancer name
DescribeByName(cl, name, fail) ==
    IF fail = "DescribeLoadBalancers"
    THEN [pages |-> <<>>, err |-> Some(ApiError("Throttling"))]
    ELSE IF \/ fail = "DescribeLoadBalancers:NotFound"
            \/ IsNil(cl.lb)
            \/ ValueOfStr(Deref(cl.lb).LoadBalancerName) # name
    THEN [pages |-> <<>>, err |-> Some(ApiError("LoadBalancerNotFound"))]
    ELSE IF fail = "DescribeLoadBalancers:empty"
    THEN [pages |-> << <<>> >>, err |-> None]
    ELSE [pages |-> << <<Deref(cl.lb)>> >>, err |-> None]

-----------------------------------------------------------------------------
(* RenderAWS: the imperative render *)

\* One entry of the call log: the call, its request, and whether it succeeded
Call(op, arg, ok) == [op |-> op, arg |-> arg, ok |-> ok]

\* The render state threaded through the steps of RenderAWS: the desired task,
\* the remote state, the calls issued, and the error returned (None while running)
Issue(rs, op, arg, ok) == [rs EXCEPT !.calls = Append(@, Call(op, arg, ok))]
Return(rs, err) == [rs EXCEPT !.err = Some(err)]

\* a plausible slip: the load balancer is created and not queried again
RenderCreateNoRequery(rs, des, fail, order) ==
    IF IsNil(des.LoadBalancerName) THEN Return(rs, RequiredField("LoadBalancerName"))
    ELSE IF \E k \in DOMAIN des.Listeners : ~ParseInt(k).ok
        THEN Return(rs, Errorf("error parsing load balancer listener port"))
    ELSE
    LET request == [LoadBalancerName |-> des.LoadBalancerName, Scheme |-> des.Scheme,
                    Subnets |-> IdStrings(des.Subnets),
                    SecurityGroups |-> IdStrings(des.SecurityGroups),
                    Listeners |-> AwsListeners(des.Listeners, order)]
    IN  IF fail = "CreateLoadBalancer"
        THEN Return(Issue(rs, "CreateLoadBalancer", request, FALSE),
                    Errorf("error creating ELB"))
        ELSE [Issue(rs, "CreateLoadBalancer", request, TRUE) EXCEPT
                 !.cloud = CloudCreate(rs.cloud, des.LoadBalancerName, des.Scheme,
                               request.Subnets, request.SecurityGroups,
                               request.Listeners),
                 !.e.DNSName = Some(NewDNSName)]

\* RenderAWS, a == nil: create the load balancer and requery it
RenderCreate(rs, des, fail, order) ==
    IF IsNil(des.LoadBalancerName) THEN Return(rs, RequiredField("LoadBalancerName"))
    ELSE IF \E k \in DOMAIN des.Listeners : ~ParseInt(k).ok
        THEN Return(rs, Errorf("error parsing load balancer listener port"))
    ELSE
    LET name == Deref(des.LoadBalancerName)
        request == [LoadBalancerName |-> des.LoadBalancerName, Scheme |-> des.Scheme,
                    Subnets |-> IdStrings(des.Subnets),
                    SecurityGroups |-> IdStrings(des.SecurityGroups),
                    Listeners |-> AwsListeners(des.Listeners, order)]
        created == [Issue(rs, "CreateLoadBalancer", request, TRUE) EXCEPT
                       !.cloud = CloudCreate(rs.cloud, des.LoadBalancerName, des.Scheme,
                                     request.Subnets, request.SecurityGroups,
                                     request.Listeners),
                       !.e.DNSName = Some(NewDNSName)]
        listing == DescribeByName(created.cloud, name, fail)
        found == findLoadBalancerByLoadBalancerName(listing, name)
        queried == Issue(created, "DescribeLoadBalancers", name, IsNil(listing.err))
    IN  IF fail = "CreateLoadBalancer"
        THEN Return(Issue(rs, "CreateLoadBalancer", request, FALSE),
                    Errorf("error creating ELB"))
        ELSE IF ~IsNil(found.err) THEN Return(queried, Deref(found.err))
        ELSE IF IsNil(found.lb)
            THEN Return(queried, Errorf("Unable to find newly created ELB"))
        ELSE [queried EXCEPT !.e.HostedZoneId = Deref(found.lb).CanonicalHostedZoneNameID]

\* a plausible slip: the two subnet deltas are taken the wrong way round
RenderSubnetsSwapped(rs, act, des, ch, name, fail) ==
    IF ~IsNil(rs.err) \/ IsNil(ch.Subnets) THEN rs
    ELSE
    LET expectedSubnets == IdStrings(des.Subnets)
        actualSubnets == IdStrings(act.Subnets)
        oldSubnetIDs == GetUniqueStrings(actualSubnets, expectedSubnets)
        newSubnetIDs == GetUniqueStrings(expectedSubnets, actualSubnets)
        detach == [LoadBalancerName |-> name, Subnets |-> oldSubnetIDs]
        attach == [LoadBalancerName |-> name, Subnets |-> newSubnetIDs]
        s1 == IF Len(oldSubnetIDs) = 0 THEN rs
              ELSE IF fail = "DetachLoadBalancerFromSubnets"
              THEN Return(Issue(rs, "DetachLoadBalancerFromSubnets", detach, FALSE),
                          Errorf("Error detaching Load Balancer from old subnets"))
              ELSE [Issue(rs, "DetachLoadBalancerFromSubnets", detach, TRUE) EXCEPT
                       !.cloud = CloudDetach(rs.cloud, oldSubnetIDs)]
    IN  IF ~IsNil(s1.err) \/ Len(newSubnetIDs) = 0 THEN s1
        ELSE IF fail = "AttachLoadBalancerToSubnets"
        THEN Return(Issue(s1, "AttachLoadBalancerToSubnets", attach, FALSE),
                    Errorf("Error attaching Load Balancer to new subnets"))
        ELSE [Issue(s1, "AttachLoadBalancerToSubnets", attach, TRUE) EXCEPT
                 !.cloud = CloudAttach(s1.cloud, newSubnetIDs)]

\* RenderAWS, update, changes.Subnets != nil: detach the old subnets, then
\* attach the new ones
RenderSubnets(rs, act, des, ch, name, fail) ==
    IF ~IsNil(rs.err) \/ IsNil(ch.Subnets) THEN rs
    ELSE
    LET expectedSubnets == IdStrings(des.Subnets)
        actualSubnets == IdStrings(act.Subnets)
        oldSubnetIDs == GetUniqueStrings(expectedSubnets, actualSubnets)
        newSubnetIDs == GetUniqueStrings(actualSubnets, expectedSubnets)
        detach == [LoadBalancerName |-> name, Subnets |-> oldSubnetIDs]
        attach == [LoadBalancerName |-> name, Subnets |-> newSubnetIDs]
        s1 == IF Len(oldSubnetIDs) = 0 THEN rs
              ELSE IF fail = "DetachLoadBalancerFromSubnets"
              THEN Return(Issue(rs, "DetachLoadBalancerFromSubnets", detach, FALSE),
                          Errorf("Error detaching Load Balancer from old subnets"))
              ELSE [Issue(rs, "DetachLoadBalancerFromSubnets", detach, TRUE) EXCEPT
                       !.cloud = CloudDetach(rs.cloud, oldSubnetIDs)]
    IN  IF ~IsNil(s1.err) \/ Len(newSubnetIDs) = 0 THEN s1
        ELSE IF fail = "AttachLoadBalancerToSubnets"
        THEN Return(Issue(s1, "AttachLoadBalancerToSubnets", attach, FALSE),
                    Errorf("Error attaching Load Balancer to new subnets"))
        ELSE [Issue(s1, "AttachLoadBalancerToSubnets", attach, TRUE) EXCEPT
                 !.cloud = CloudAttach(s1.cloud, newSubnetIDs)]

\* RenderAWS, update, changes.SecurityGroups != nil
RenderSecurityGroups(rs, des, ch, name, fail) ==
    IF ~IsNil(rs.err) \/ IsNil(ch.SecurityGroups) THEN rs
    ELSE
    LET request == [LoadBalancerName |-> name,
                    SecurityGroups |-> IdStrings(des.SecurityGroups)]
    IN  IF fail = "ApplySecurityGroupsToLoadBalancer"
        THEN Return(Issue(rs, "ApplySecurityGroupsToLoadBalancer", request, FALSE),
                    Errorf("Error updating security groups on Load Balancer"))
        ELSE [Issue(rs, "ApplySecurityGroupsToLoadBalancer", request, TRUE) EXCEPT
                 !.cloud = CloudApplySecurityGroups(rs.cloud, request.SecurityGroups)]

\* the one port whose listener RenderAWS deletes before recreating the listeners
DeletedListenerPort == 443

\* RenderAWS, update, changes.Listeners != nil
RenderListeners(rs, ch, name, fail, order) ==
    IF ~IsNil(rs.err) \/ IsNil(ch.Listeners) THEN rs
    ELSE
    LET listing == DescribeByName(rs.cloud, name, fail)
        elbDescription == findLoadBalancerByLoadBalancerName(listing, name)
        queried == Issue(rs, "DescribeLoadBalancers", name, IsNil(listing.err))
        ports == {DeletedListenerPort}
        \* the result of DeleteLoadBalancerListeners is discarded
        deleted ==
            IF IsNil(elbDescription.lb) THEN queried
            ELSE IF fail = "DeleteLoadBalancerListeners"
            THEN Issue(queried, "DeleteLoadBalancerListeners", ports, FALSE)
            ELSE [Issue(queried, "DeleteLoadBalancerListeners", ports, TRUE) EXCEPT
                     !.cloud = CloudDeleteListeners(queried.cloud, ports)]
        m == Deref(ch.Listeners)
        request == [LoadBalancerName |-> name, Listeners |-> AwsListeners(m, order)]
    IN  IF ~IsNil(elbDescription.err)
        THEN Return(queried, Errorf("error getting load balancer by name"))
        ELSE IF \E k \in DOMAIN m : ~ParseInt(k).ok
        THEN Return(deleted, Errorf("error parsing load balancer listener port"))
        ELSE IF \/ fail = "CreateLoadBalancerListeners"
                \/ IsNil(deleted.cloud.lb)
                \/ DuplicateListener(deleted.cloud, request.Listeners)
        THEN Return(Issue(deleted, "CreateLoadBalancerListeners", request, FALSE),
                    Errorf("error creating LoadBalancerListeners"))
        ELSE [Issue(deleted, "CreateLoadBalancerListeners", request, TRUE) EXCEPT
                 !.cloud = CloudCreateListeners(deleted.cloud, request.Listeners)]

\* a plausible slip: the tags are removed before the desired tags are added
RenderTagsRemoveFirst(rs, des, name, fail) ==
    IF ~IsNil(rs.err) THEN rs
    ELSE
    LET request == [LoadBalancerName |-> name, Tags |-> des.Tags]
        removed == [Issue(rs, "RemoveELBTags", request, TRUE) EXCEPT
                       !.cloud = CloudRemoveTags(rs.cloud, des.Tags)]
    IN  IF fail = "RemoveELBTags"
        THEN Return(Issue(rs, "RemoveELBTags", request, FALSE), ApiError("Throttling"))
        ELSE IF fail = "AddELBTags"
        THEN Return(Issue(removed, "AddELBTags", request, FALSE), ApiError("Throttling"))
        ELSE [Issue(removed, "AddELBTags", request, TRUE) EXCEPT
                 !.cloud = CloudAddTags(removed.cloud, des.Tags)]

\* RenderAWS: t.AddELBTags then t.RemoveELBTags, both with the desired tags
RenderTags(rs, des, name, fail) ==
    IF ~IsNil(rs.err) THEN rs
    ELSE
    LET request == [LoadBalancerName |-> name, Tags |-> des.Tags]
        added == [Issue(rs, "AddELBTags", request, TRUE) EXCEPT
                     !.cloud = CloudAddTags(rs.cloud, des.Tags)]
    IN  IF fail = "AddELBTags"
        THEN Return(Issue(rs, "AddELBTags", request, FALSE), ApiError("Throttling"))
        ELSE IF fail = "RemoveELBTags"
        THEN Return(Issue(added, "RemoveELBTags", request, FALSE), ApiError("Throttling"))
        ELSE [Issue(added, "RemoveELBTags", request, TRUE) EXCEPT
                 !.cloud = CloudRemoveTags(added.cloud, des.Tags)]

\* RenderAWS: ConfigureHealthCheck when the changes record and the desired
\* task both carry a health check
RenderHealthCheck(rs, des, ch, name, fail) ==
    IF ~IsNil(rs.err) \/ IsNil(ch.HealthCheck) \/ IsNil(des.HealthCheck) THEN rs
    ELSE
    LET request == [LoadBalancerName |-> name, HealthCheck |-> des.HealthCheck]
    IN  IF fail = "ConfigureHealthCheck"
        THEN Return(Issue(rs, "ConfigureHealthCheck", request, FALSE),
                    Errorf("error configuring health checks on ELB"))
        ELSE [Issue(rs, "ConfigureHealthCheck", request, TRUE) EXCEPT
                 !.cloud.lb = IF IsNil(@) THEN @
                              ELSE Some([Deref(@) EXCEPT !.HealthCheck = des.HealthCheck])]

\* the attributes ModifyLoadBalancerAttributes leaves on the remote resource
ModifiedAttributes(old, des) ==
    LET zero == [AccessLog |-> [Enabled |-> FALSE, EmitInterval |-> None,
                                S3BucketName |-> None, S3BucketPrefix |-> None],
                 ConnectionDraining |-> [Enabled |-> FALSE, Timeout |-> None],
                 ConnectionSettings |-> [IdleTimeout |-> None],
                 CrossZoneLoadBalancing |-> [Enabled |-> FALSE]]
        o == IF IsNil(old) THEN zero ELSE Deref(old)
    IN  Some([AccessLog |->
                  IF IsNil(des.AccessLog) THEN o.AccessLog
                  ELSE [Deref(des.AccessLog) EXCEPT !.Enabled = ValueOfBool(@)],
              ConnectionDraining |->
                  IF IsNil(des.ConnectionDraining) THEN o.ConnectionDraining
                  ELSE [Deref(des.ConnectionDraining) EXCEPT !.Enabled = ValueOfBool(@)],
              ConnectionSettings |->
                  IF IsNil(des.ConnectionSettings) THEN o.ConnectionSettings
                  ELSE Deref(des.ConnectionSettings),
              CrossZoneLoadBalancing |->
                  IF IsNil(des.CrossZoneLoadBalancing) THEN o.CrossZoneLoadBalancing
                  ELSE [Enabled |-> ValueOfBool(Deref(des.CrossZoneLoadBalancing).Enabled)]])

\* e.modifyLoadBalancerAttributes(t, a, e, changes): one ModifyLoadBalancerAttributes
\* call when the changes record carries an attribute block
modifyLoadBalancerAttributes(rs, des, ch, fail) ==
    IF ~IsNil(rs.err) THEN rs
    ELSE IF /\ IsNil(ch.AccessLog) /\ IsNil(ch.ConnectionDraining)
            /\ IsNil(ch.ConnectionSettings) /\ IsNil(ch.CrossZoneLoadBalancing)
    THEN rs
    ELSE
    LET request == [LoadBalancerName |-> ValueOfStr(des.LoadBalancerName)]
    IN  IF fail = "ModifyLoadBalancerAttributes"
        THEN Return(Issue(rs, "ModifyLoadBalancerAttributes", request, FALSE),
                    ApiError("Throttling"))
        ELSE [Issue(rs, "ModifyLoadBalancerAttributes", request, TRUE) EXCEPT
                 !.cloud.attrs = ModifiedAttributes(@, des)]

\* RenderAWS past the shared check
RenderAWSOwned(act, des, ch, cl, fail, order) ==
    LET rs0 == [e |-> des, cloud |-> cl, calls |-> <<>>, err |-> None]
        name == IF IsNil(act) THEN ValueOfStr(des.LoadBalancerName)
                ELSE ValueOfStr(Deref(act).LoadBalancerName)
        rs1 == IF IsNil(act) THEN RenderCreate(rs0, des, fail, order)
               ELSE RenderListeners(
                        RenderSecurityGroups(
                            RenderSubnets(rs0, Deref(act), des, ch, name, fail),
                            des, ch, name, fail),
                        ch, name, fail, order)
        \* e inside the tail is the task as the create path left it
        rs2 == RenderTags(rs1, rs1.e, name, fail)
        rs3 == RenderHealthCheck(rs2, rs2.e, ch, name, fail)
    IN  modifyLoadBalancerAttributes(rs3, rs3.e, ch, fail)

\* a plausible slip: the shared check is missing
RenderAWSUnchecked(act, des, ch, cl, fail, order) ==
    RenderAWSOwned(act, des, ch, cl, fail, order)

\* RenderAWS(t, a, e, changes). fail names the cloud call that fails ("none":
\* all succeed), order the order in which the listener map is visited.
\* Returns the error, the desired task and remote state as the call leaves
\* them, and the calls issued.
RenderAWS(act, des, ch, cl, fail, order) ==
    IF ValueOfBool(des.Shared)
    THEN [e |-> des, cloud |-> cl, calls |-> <<>>, err |-> None]
    ELSE RenderAWSOwned(act, des, ch, cl, fail, order)

-----------------------------------------------------------------------------
(* The terraform value writer *)

\* cty values, tagged by kind
VNull == [t |-> "null"]
VString(x) == [t |-> "string", s |-> x]
VNumber(n) == [t |-> "number", n |-> n]
VBool(b) == [t |-> "bool", b |-> b]
\* an object value that gocty.FromCtyValue converts to a terraformWriter.Literal
VLiteral(lit) == [t |-> "literal", lit |-> lit]
VList(elems) == [t |-> "list", elems |-> elems]
VObject(attrs) == [t |-> "object", attrs |-> attrs]
VMap(entries) == [t |-> "map", entries |-> entries]

\* terraformWriter.LiteralProperty(kind, name, prop): kind.name.prop; the
\* text of a literal is a sequence of fragments
LiteralProperty(kind, name, prop) == [String |-> <<kind, ".", name, ".", prop>>]
\* terraformWriter.LiteralFromStringValue(s): the quoted string
LiteralFromStringValue(x) == [String |-> <<"\"", x, "\"">>]

\* Go's < on the text of two literals
RECURSIVE LexLess(_, _)
LexLess(x, y) ==
    IF y = <<>> THEN FALSE
    ELSE IF x = <<>> THEN TRUE
    ELSE IF Head(x) # Head(y) THEN StrLess(Head(x), Head(y))
    ELSE LexLess(Tail(x), Tail(y))

RECURSIVE InsertLiteral(_, _)
InsertLiteral(x, s) ==
    IF s = <<>> THEN <<x>>
    ELSE IF LexLess(x.String, Head(s).String) THEN <<x>> \o s
    ELSE <<Head(s)>> \o InsertLiteral(x, Tail(s))

\* terraformWriter.SortLiterals: ascending by text
RECURSIVE SortLiterals(_)
SortLiterals(s) ==
    IF s = <<>> THEN <<>> ELSE InsertLiteral(Head(s), SortLiterals(Tail(s)))

\* the keys of a Go map or of a cty object type in the order in which a
\* `range` visits them: iter lists every string in visiting order
KeysInOrder(S, iter) == SelectSeq(iter, LAMBDA x : x \in S)

\* the orders in which a `range` may visit the keys
Reverse(q) == [i \in DOMAIN q |-> q[Len(q) + 1 - i]]
IterOrders == {StringOrder, Reverse(StringOrder)}

RECURSIVE InsertString(_, _)
InsertString(x, q) ==
    IF q = <<>> THEN <<x>>
    ELSE IF StrLess(x, Head(q)) THEN <<x>> \o q
    ELSE <<Head(q)>> \o InsertString(x, Tail(q))

\* a plausible slip: the keys are left in the order in which they were visited
SortStringsNone(keys) == keys

\* sort.Strings(keys)
RECURSIVE SortStrings(_)
SortStrings(keys) ==
    IF keys = <<>> THEN <<>> ELSE InsertString(Head(keys), SortStrings(Tail(keys)))

Token(type, bytes) == [type |-> type, bytes |-> bytes]
Attribute(key, tokens) == [kind |-> "attribute", key |-> key, tokens |-> tokens]
Block(key, body) == [kind |-> "block", key |-> key, body |-> body]

\* body.SetAttributeRaw / body.SetAttributeValue: replaces the attribute of
\* that name when the body has one, appends it otherwise
SetAttribute(body, key, tokens) ==
    IF \E i \in DOMAIN body : body[i].kind = "attribute" /\ body[i].key = key
    THEN [i \in DOMAIN body |->
            IF body[i].kind = "attribute" /\ body[i].key = key
            THEN Attribute(key, tokens) ELSE body[i]]
    ELSE Append(body, Attribute(key, tokens))

\* hclwrite.TokensForValue on a plain value
RECURSIVE TokensForValue(_)
TokensForValue(value) ==
    IF value.t = "string"
    THEN <<Token("OQuote", "\""), Token("QuotedLit", value.s), Token("CQuote", "\"")>>
    ELSE IF value.t = "number" THEN <<Token("NumberLit", FormatInt(value.n))>>
    ELSE IF value.t = "bool"
    THEN <<Token("Ident", IF value.b THEN "true" ELSE "false")>>
    ELSE IF value.t = "list"
    THEN LET RECURSIVE Elems(_)
             Elems(i) ==
                 IF i > Len(value.elems) THEN <<>>
                 ELSE TokensForValue(value.elems[i])
                      \o (IF i < Len(value.elems) THEN <<Token("Comma", ",")>> ELSE <<>>)
                      \o Elems(i + 1)
         IN  <<Token("OBrack", "[")>> \o Elems(1) \o <<Token("CBrack", "]")>>
    ELSE <<Token("Unsupported", value.t)>>

\* a plausible slip: a comma follows every element, the last one included
literalListTokensTrailing(literals) ==
    LET RECURSIVE Elems(_)
        Elems(i) ==
            IF i > Len(literals) THEN <<>>
            ELSE <<Token("Ident", literals[i].String), Token("Comma", ",")>> \o Elems(i + 1)
    IN  <<Token("OBrack", "[")>> \o Elems(1) \o <<Token("CBrack", "]")>>

\* literalListTokens
literalListTokens(literals) ==
    LET RECURSIVE Elems(_)
        Elems(i) ==
            IF i > Len(literals) THEN <<>>
            ELSE <<Token("Ident", literals[i].String)>>
                 \o (IF i < Len(literals) THEN <<Token("Comma", ",")>> ELSE <<>>)
                 \o Elems(i + 1)
    IN  <<Token("OBrack", "[")>> \o Elems(1) \o <<Token("CBrack", "]")>>

\* writeLiteral / writeLiteralList
writeLiteral(body, key, literal) ==
    SetAttribute(body, key, <<Token("Ident", literal.String)>>)
writeLiteralList(body, key, literals) ==
    SetAttribute(body, key, literalListTokens(literals))

\* the literals a list value converts to, in list order
LiteralsOf(elems) ==
    LET lits == SelectSeq(elems, LAMBDA x : x.t = "literal")
    IN  [i \in DOMAIN lits |-> lits[i].lit]

\* oldWriteMap: "key" = value lines in ascending key order; v.AsString()
\* panics on a value that is no string
oldWriteMap(body, key, values, iter) ==
    IF DOMAIN values = {} THEN body
    ELSE
    LET keys == SortStrings(KeysInOrder(DOMAIN values, iter))
        Entry(k) ==
            LET v == values[k]
            IN  <<Token("OQuote", "\""), Token("QuotedLit", k), Token("CQuote", "\""),
                  Token("Equal", "=")>>
                \o (IF v.t = "literal" THEN <<Token("Ident", v.lit.String)>>
                    ELSE IF v.t = "list" /\ \A i \in DOMAIN v.elems : v.elems[i].t = "literal"
                    THEN literalListTokens(LiteralsOf(v.elems))
                    ELSE IF v.t = "string"
                    THEN <<Token("OQuote", "\""), Token("QuotedLit", v.s),
                           Token("OQuote", "\"")>>
                    ELSE <<Token("panic", "AsString")>>)
                \o <<Token("Newline", "\n")>>
        RECURSIVE Entries(_)
        Entries(i) == IF i > Len(keys) THEN <<>> ELSE Entry(keys[i]) \o Entries(i + 1)
    IN  SetAttribute(body, key,
            <<Token("OBrace", "{"), Token("Newline", "\n")>> \o Entries(1)
            \o <<Token("CBrace", "}")>>)

\* a plausible slip: a null value is written as the attribute key = null
RECURSIVE writeValueNull(_, _, _, _)
writeValueNull(body, key, value, iter) ==
    LET RECURSIVE WriteAttrs(_, _, _)
        WriteAttrs(childBody, obj, keys) ==
            IF keys = <<>> THEN childBody
            ELSE WriteAttrs(writeValueNull(childBody, Head(keys), obj[Head(keys)], iter),
                            obj, Tail(keys))
        ObjectBlock(obj) ==
            Block(key, WriteAttrs(<<>>, obj, SortStrings(KeysInOrder(DOMAIN obj, iter))))
    IN  IF value.t = "null" THEN SetAttribute(body, key, <<Token("Ident", "null")>>)
        ELSE IF value.t = "list"
        THEN IF Len(value.elems) = 0 THEN body
             ELSE IF Len(LiteralsOf(value.elems)) > 0
             THEN writeLiteralList(body, key, LiteralsOf(value.elems))
             ELSE IF value.elems[1].t = "object"
             THEN body \o [i \in DOMAIN value.elems |-> ObjectBlock(value.elems[i].attrs)]
             ELSE SetAttribute(body, key, TokensForValue(value))
        ELSE IF value.t = "literal" THEN writeLiteral(body, key, value.lit)
        ELSE IF value.t = "object" THEN Append(body, ObjectBlock(value.attrs))
        ELSE IF value.t = "map" THEN oldWriteMap(body, key, value.entries, iter)
        ELSE SetAttribute(body, key, TokensForValue(value))

\* writeValue(body, key, value): the body with the value written under key;
\* iter is the order in which the keys of an object or map are visited
RECURSIVE writeValue(_, _, _, _)
writeValue(body, key, value, iter) ==
    LET \* the attributes of an object written in ascending key order
        RECURSIVE WriteAttrs(_, _, _)
        WriteAttrs(childBody, obj, keys) ==
            IF keys = <<>> THEN childBody
            ELSE WriteAttrs(writeValue(childBody, Head(keys), obj[Head(keys)], iter),
                            obj, Tail(keys))
        ObjectBlock(obj) ==
            Block(key, WriteAttrs(<<>>, obj, SortStrings(KeysInOrder(DOMAIN obj, iter))))
    IN  IF value.t = "null" THEN body
        ELSE IF value.t = "list"
        THEN IF Len(value.elems) = 0 THEN body
             ELSE IF Len(LiteralsOf(value.elems)) > 0
             THEN writeLiteralList(body, key, LiteralsOf(value.elems))
             ELSE IF value.elems[1].t = "object"
             THEN body \o [i \in DOMAIN value.elems |-> ObjectBlock(value.elems[i].attrs)]
             ELSE SetAttribute(body, key, TokensForValue(value))
        ELSE IF value.t = "literal" THEN writeLiteral(body, key, value.lit)
        ELSE IF value.t = "object" THEN Append(body, ObjectBlock(value.attrs))
        ELSE IF value.t = "map" THEN oldWriteMap(body, key, value.entries, iter)
        ELSE SetAttribute(body, key, TokensForValue(value))

-----------------------------------------------------------------------------
(* RenderTerraform: the declarative render *)

OptString(p) == IF IsNil(p) THEN VNull ELSE VString(Deref(p))
OptNumber(p) == IF IsNil(p) THEN VNull ELSE VNumber(Deref(p))
OptBool(p) == IF IsNil(p) THEN VNull ELSE VBool(Deref(p))

\* (e *Subnet) TerraformLink / (e *SecurityGroup) TerraformLink of an owned task
RefLink(kind, ref) == LiteralProperty(kind, Deref(ref.Name), "id")

\* cloud.BuildTags(name): the tags every resource of the cluster carries
BuildTags(name) == [k \in {"Name"} |-> ValueOfStr(name)]

\* one terraformLoadBalancerListener as a cty object
TerraformListener(portKey, l) ==
    VObject([k \in {"instance_port", "instance_protocol", "lb_port", "lb_protocol",
                    "ssl_certificate_id"} |->
        CASE k = "instance_port" -> VNumber(l.InstancePort)
          [] k = "instance_protocol" ->
                VString(IF l.SSLCertificateID # "" THEN "SSL" ELSE "TCP")
          [] k = "lb_port" -> VNumber(ParseInt(portKey).val)
          [] k = "lb_protocol" -> VString(IF l.SSLCertificateID # "" THEN "SSL" ELSE "TCP")
          [] k = "ssl_certificate_id" ->
                IF l.SSLCertificateID # "" THEN VString(l.SSLCertificateID) ELSE VNull])

TerraformHealthCheck(hc) ==
    VObject([k \in {"target", "healthy_threshold", "unhealthy_threshold", "interval",
                    "timeout"} |->
        CASE k = "target" -> OptString(hc.Target)
          [] k = "healthy_threshold" -> OptNumber(hc.HealthyThreshold)
          [] k = "unhealthy_threshold" -> OptNumber(hc.UnhealthyThreshold)
          [] k = "interval" -> OptNumber(hc.Interval)
          [] k = "timeout" -> OptNumber(hc.Timeout)])

TerraformAccessLog(al) ==
    VObject([k \in {"interval", "enabled", "bucket", "bucket_prefix"} |->
        CASE k = "interval" -> OptNumber(al.EmitInterval)
          [] k = "enabled" -> OptBool(al.Enabled)
          [] k = "bucket" -> OptString(al.S3BucketName)
          [] k = "bucket_prefix" -> OptString(al.S3BucketPrefix)])

\* the terraformLoadBalancer RenderTerraform fills in, as a cty object; the
\* listener list is in the order in which the listener map was visited
TerraformLoadBalancer(des, order) ==
    LET tags == [k \in DOMAIN BuildTags(des.Name) \cup DOMAIN des.Tags |->
                    IF k \in DOMAIN des.Tags THEN des.Tags[k] ELSE BuildTags(des.Name)[k]]
        subnets == SortLiterals([i \in DOMAIN des.Subnets |->
                                    RefLink("aws_subnet", des.Subnets[i])])
        sgs == SortLiterals([i \in DOMAIN des.SecurityGroups |->
                                RefLink("aws_security_group", des.SecurityGroups[i])])
    IN  VObject([k \in {"name", "listener", "security_groups", "subnets", "internal",
                        "health_check", "access_logs", "connection_draining",
                        "connection_draining_timeout", "cross_zone_load_balancing",
                        "idle_timeout", "tags"} |->
        CASE k = "name" -> OptString(des.LoadBalancerName)
          [] k = "listener" ->
                VList([i \in DOMAIN order |->
                          TerraformListener(order[i], des.Listeners[order[i]])])
          [] k = "security_groups" -> VList([i \in DOMAIN sgs |-> VLiteral(sgs[i])])
          [] k = "subnets" -> VList([i \in DOMAIN subnets |-> VLiteral(subnets[i])])
          [] k = "internal" ->
                IF ValueOfStr(des.Scheme) = "internal" THEN VBool(TRUE) ELSE VNull
          [] k = "health_check" ->
                IF IsNil(des.HealthCheck) THEN VNull
                ELSE TerraformHealthCheck(Deref(des.HealthCheck))
          [] k = "access_logs" ->
                IF ~IsNil(des.AccessLog) /\ ValueOfBool(Deref(des.AccessLog).Enabled)
                THEN TerraformAccessLog(Deref(des.AccessLog)) ELSE VNull
          [] k = "connection_draining" ->
                IF IsNil(des.ConnectionDraining) THEN VNull
                ELSE OptBool(Deref(des.ConnectionDraining).Enabled)
          [] k = "connection_draining_timeout" ->
                IF IsNil(des.ConnectionDraining) THEN VNull
                ELSE OptNumber(Deref(des.ConnectionDraining).Timeout)
          [] k = "cross_zone_load_balancing" ->
                IF IsNil(des.CrossZoneLoadBalancing) THEN VNull
                ELSE OptBool(Deref(des.CrossZoneLoadBalancing).Enabled)
          [] k = "idle_timeout" ->
                IF IsNil(des.ConnectionSettings) THEN VNull
                ELSE OptNumber(Deref(des.ConnectionSettings).IdleTimeout)
          [] k = "tags" -> VMap([t \in DOMAIN tags |-> VString(tags[t])])])

\* t.RenderResource(kind, name, value): one resource block whose body holds
\* the attributes of the value
RenderResource(kind, name, value, iter) ==
    [type |-> kind, name |-> name, body |-> writeValue(<<>>, kind, value, iter)[1].body]

\* a plausible slip: the resource is rendered before the missing load balancer
\* name is reported
RenderTerraformLate(act, des, ch, order, iter) ==
    IF ValueOfBool(des.Shared) THEN [err |-> None, panic |-> FALSE, blocks |-> <<>>]
    ELSE IF \E k \in DOMAIN des.Listeners : ~ParseInt(k).ok
    THEN [err |-> Some(Errorf("error parsing load balancer listener port")),
          panic |-> FALSE, blocks |-> <<>>]
    ELSE IF IsNil(des.Name) THEN [err |-> None, panic |-> TRUE, blocks |-> <<>>]
    ELSE [err |-> IF IsNil(des.LoadBalancerName)
                  THEN Some(RequiredField("LoadBalancerName")) ELSE None,
          panic |-> FALSE,
          blocks |-> <<RenderResource("aws_elb", Deref(des.Name),
                                      TerraformLoadBalancer(des, order), iter)>>]

\* RenderTerraform(t, a, e, changes). order is the order in which the
\* listener map is visited, iter the order in which the target visits the keys
\* of the value. Returns the error, whether the call panicked on a nil
\* pointer, and the resource blocks handed to the target.
RenderTerraform(act, des, ch, order, iter) ==
    IF ValueOfBool(des.Shared) THEN [err |-> None, panic |-> FALSE, blocks |-> <<>>]
    ELSE IF IsNil(des.LoadBalancerName)
    THEN [err |-> Some(RequiredField("LoadBalancerName")), panic |-> FALSE, blocks |-> <<>>]
    ELSE IF \E k \in DOMAIN des.Listeners : ~ParseInt(k).ok
    THEN [err |-> Some(Errorf("error parsing load balancer listener port")),
          panic |-> FALSE, blocks |-> <<>>]
    ELSE IF IsNil(des.Name) THEN [err |-> None, panic |-> TRUE, blocks |-> <<>>]
    ELSE [err |-> None, panic |-> FALSE,
          blocks |-> <<RenderResource("aws_elb", Deref(des.Name),
                                      TerraformLoadBalancer(des, order), iter)>>]

\* a plausible slip: the parameter is ignored
TerraformLinkIdOnly(des, params) ==
    IF ValueOfBool(des.Shared)
    THEN IF IsNil(des.LoadBalancerName)
         THEN [lit |-> None, fatal |-> TRUE, panic |-> FALSE]
         ELSE [lit |-> Some(LiteralFromStringValue(Deref(des.LoadBalancerName))),
               fatal |-> FALSE, panic |-> FALSE]
    ELSE IF IsNil(des.Name) THEN [lit |-> None, fatal |-> FALSE, panic |-> TRUE]
         ELSE [lit |-> Some(LiteralProperty("aws_elb", Deref(des.Name), "id")),
               fatal |-> FALSE, panic |-> FALSE]

\* (e *ClassicLoadBalancer) TerraformLink(params...): the literal returned,
\* whether klog.Fatalf ended the process, whether *e.Name panicked
TerraformLink(des, params) ==
    IF ValueOfBool(des.Shared)
    THEN IF IsNil(des.LoadBalancerName)
         THEN [lit |-> None, fatal |-> TRUE, panic |-> FALSE]
         ELSE [lit |-> Some(LiteralFromStringValue(Deref(des.LoadBalancerName))),
               fatal |-> FALSE, panic |-> FALSE]
    ELSE LET prop == IF Len(params) > 0 THEN params[1] ELSE "id"
         IN  IF IsNil(des.Name) THEN [lit |-> None, fatal |-> FALSE, panic |-> TRUE]
             ELSE [lit |-> Some(LiteralProperty("aws_elb", Deref(des.Name), prop)),
                   fatal |-> FALSE, panic |-> FALSE]

-----------------------------------------------------------------------------
(* Inputs: desired tasks and remote states *)

\* most listeners of one load balancer
MaxListeners == 2

SubnetIds == {"s1", "s2", "s3"}
SecurityGroupIds == {"sgA", "sgB"}
Ports == {80, 443, 8443}

\* the sequences of 1..n distinct elements of S
DistinctSeqs(S, n) ==
    {q \in UNION {[1..k -> S] : k \in 1..n} :
        \A i, j \in DOMAIN q : i # j => q[i] # q[j]}

\* a reference of the desired task: the referenced task has a name and an id
DesiredRef(id) == Ref(Some(id), Some(id))
DesiredRefs(ids) == [i \in DOMAIN ids |-> DesiredRef(ids[i])]

\* a listener map with one plain TCP listener per port, keyed by the port text
ListenerMap(ports) ==
    [p \in {FormatInt(n) : n \in ports} |-> Listener(ParseInt(p).val, "")]

\* a listener map whose key is no number
MalformedListenerMap == [p \in {<<"x">>} |-> Listener(443, "")]

PortSets == {P \in SUBSET Ports : Cardinality(P) <= MaxListeners}

RECURSIVE AscendingPorts(_)
AscendingPorts(P) ==
    IF P = {} THEN <<>>
    ELSE LET m == CHOOSE x \in P : \A y \in P : x <= y
         IN  <<m>> \o AscendingPorts(P \ {m})

\* the remote listeners on the given ports, each forwarding to port + offset
RemoteListeners(P, offset) ==
    LET ps == AscendingPorts(P)
    IN  [i \in DOMAIN ps |-> mapToAWS(Listener(ps[i] + offset, ""), ps[i])]

SomeHealthCheck ==
    [Target |-> Some("TCP:443"), HealthyThreshold |-> Some(2),
     UnhealthyThreshold |-> Some(2), Interval |-> Some(10), Timeout |-> Some(5)]

BaseTask ==
    [ZeroTask EXCEPT
        !.Name = Some("api"), !.LoadBalancerName = Some("lb1"),
        !.Subnets = DesiredRefs(<<"s1">>), !.SecurityGroups = DesiredRefs(<<"sgA">>),
        !.Listeners = ListenerMap({443}), !.Tags = [k \in {"k"} |-> "v"]]

BaseAttributes ==
    [AccessLog |-> [Enabled |-> FALSE, EmitInterval |-> None, S3BucketName |-> None,
                    S3BucketPrefix |-> None],
     ConnectionDraining |-> [Enabled |-> FALSE, Timeout |-> None],
     ConnectionSettings |-> [IdleTimeout |-> Some(60)],
     CrossZoneLoadBalancing |-> [Enabled |-> FALSE]]

BaseLB ==
    [LoadBalancerName |-> Some("lb1"), DNSName |-> Some(<<"lb1.elb.amazonaws.com">>),
     CanonicalHostedZoneNameID |-> Some("Z1"), Scheme |-> None,
     Subnets |-> <<"s1">>, SecurityGroups |-> <<"sgA">>,
     ListenerDescriptions |-> RemoteListeners({443}, 0), HealthCheck |-> None]

\* the remote state with the load balancer of the task / without it
BaseCloud ==
    [lb |-> Some(BaseLB), nameTag |-> "api",
     tags |-> [k \in {"k", "aws:cloudformation:stack-name"} |-> "v"],
     attrs |-> Some(BaseAttributes)]
AbsentCloud == [lb |-> None, nameTag |-> "", tags |-> EmptyMap, attrs |-> None]

Scenario(des, cl) == [e |-> des, cloud |-> cl]

\* desired and remote reference lists of every order and overlap
RefScenarios ==
    {Scenario([BaseTask EXCEPT !.Subnets = DesiredRefs(ss),
                               !.SecurityGroups = DesiredRefs(gs)], cl) :
        ss \in DistinctSeqs(SubnetIds, MaxRefs),
        gs \in DistinctSeqs(SecurityGroupIds, MaxRefs),
        cl \in {AbsentCloud}
               \cup {[BaseCloud EXCEPT !.lb[1].Subnets = rs, !.lb[1].SecurityGroups = rg] :
                        rs \in DistinctSeqs(SubnetIds, MaxRefs),
                        rg \in {<<"sgA">>, <<"sgB", "sgA">>}}}

\* desired and remote listeners on every set of ports
ListenerScenarios ==
    {Scenario([BaseTask EXCEPT !.Listeners = m], cl) :
        m \in {ListenerMap(P) : P \in PortSets \ {{}}} \cup {MalformedListenerMap},
        cl \in {AbsentCloud}
               \cup {[BaseCloud EXCEPT !.lb[1].ListenerDescriptions = RemoteListeners(P, off)] :
                        P \in PortSets, off \in {0, 1}}}

\* identity fields set or unset, owned and shared tasks
IdentityScenarios ==
    {Scenario([BaseTask EXCEPT !.LoadBalancerName = n, !.DNSName = d, !.HostedZoneId = z,
                               !.Shared = sh, !.HealthCheck = hc], cl) :
        n \in {None, Some("lb1"), Some("lb0")},
        d \in {None, Some(<<"api.example.com">>)},
        z \in {None, Some("Z9")},
        sh \in {None, Some(FALSE), Some(TRUE)},
        hc \in {None, Some(SomeHealthCheck)},
        cl \in {AbsentCloud, BaseCloud}}

\* tasks that lack a field CheckChanges or the renders require
MissingScenarios ==
    {Scenario([BaseTask EXCEPT !.LoadBalancerName = n, !.Subnets = ss,
                               !.SecurityGroups = gs], AbsentCloud) :
        n \in {None, Some("lb1")},
        ss \in {<<>>, DesiredRefs(<<"s1">>)},
        gs \in {<<>>, DesiredRefs(<<"sgA">>)}}

AccessLogs ==
    {None}
    \cup {Some([Enabled |-> en, EmitInterval |-> None, S3BucketName |-> b,
                S3BucketPrefix |-> None]) :
            en \in {None, Some(FALSE), Some(TRUE)}, b \in {None, Some("bucket")}}
FeatureBlocks == {None} \cup {Some([Enabled |-> en]) : en \in {None, Some(FALSE), Some(TRUE)}}
DrainingBlocks ==
    {None} \cup {Some([Enabled |-> en, Timeout |-> None]) :
                    en \in {None, Some(FALSE), Some(TRUE)}}

\* every combination of the fields CheckChanges looks at
CheckScenarios ==
    {Scenario([BaseTask EXCEPT !.Name = n, !.Shared = sh, !.SecurityGroups = gs,
                               !.Subnets = ss, !.AccessLog = al,
                               !.ConnectionDraining = cd,
                               !.CrossZoneLoadBalancing = cz], cl) :
        n \in {None, Some(""), Some("api")},
        sh \in {None, Some(FALSE), Some(TRUE)},
        gs \in {<<>>, DesiredRefs(<<"sgA">>)},
        ss \in {<<>>, DesiredRefs(<<"s1">>)},
        al \in AccessLogs, cd \in DrainingBlocks, cz \in FeatureBlocks,
        cl \in {AbsentCloud, BaseCloud}}

-----------------------------------------------------------------------------
(* Inputs of the stand-alone lookups *)

LookupLBs ==
    {LBDescription(Some("lb1"), Some(<<"d1.elb.amazonaws.com", ".">>), Some("Z1")),
     LBDescription(Some("lb2"), Some(<<"d2.elb.amazonaws.com">>), Some("Z2"))}

SeqsUpTo(S, lo, hi) == UNION {[1..k -> S] : k \in lo..hi}

ResultPages == SeqsUpTo(LookupLBs, 0, MaxPerPage)

\* at most MaxPages calls of NextPage: all succeed, or the last one fails
Listings ==
    {[pages |-> ps, err |-> None] : ps \in SeqsUpTo(ResultPages, 1, MaxPages)}
    \cup {[pages |-> ps, err |-> Some(ApiError(code))] :
            ps \in SeqsUpTo(ResultPages, 0, MaxPages - 1),
            code \in {"LoadBalancerNotFound", "Throttling"}}

Aliases ==
    {[DNSName |-> d, HostedZoneId |-> Some("Z1")] :
        d \in {None, Some(<<"d1.elb.amazonaws.com">>), Some(<<"d2.elb.amazonaws.com", ".">>),
               Some(<<"dualstack.", "d1.elb.amazonaws.com">>)}}

NoAlias == [DNSName |-> None, HostedZoneId |-> None]

Lookups ==
    {[kind |-> "name", listing |-> l, name |-> n, alias |-> NoAlias, out |-> None] :
        l \in Listings, n \in {"lb1", "lb2"}}
    \cup {[kind |-> "alias", listing |-> l, name |-> "", alias |-> al, out |-> None] :
            l \in Listings, al \in Aliases}

NoLookup ==
    [kind |-> "none", listing |-> [pages |-> <<>>, err |-> None], name |-> "",
     alias |-> NoAlias, out |-> None]

-----------------------------------------------------------------------------
(* The reconciliation of one task *)

\* no value is being written, no graph is being executed
NoWrite == [kind |-> "none", key |-> "", value |-> <<>>, outs |-> <<>>]
NoExec ==
    [deps |-> <<>>, fails |-> {}, state |-> <<>>, invoked |-> <<>>, reported |-> {},
     finished |-> FALSE]
\* no cluster spec is being completed
NoOptions ==
    [clusterSpec |-> [KubernetesVersion |-> "", ClusterAutoscaler |-> None],
     history |-> <<>>, err |-> None]

NoReturn == [op |-> "none", err |-> None, panic |-> FALSE, val |-> None]
Returned(op, err, panic, val) == [op |-> op, err |-> err, panic |-> panic, val |-> val]

\* the cloud call that fails during Find / RenderAWS ("none": every call succeeds)
FindFailures ==
    {"none", "FindELBByNameTag", "DescribeELBTags", "findHealthCheck", "findELBAttributes"}
RenderFailures ==
    {"none", "CreateLoadBalancer", "DescribeLoadBalancers", "DescribeLoadBalancers:NotFound",
     "DescribeLoadBalancers:empty", "DetachLoadBalancerFromSubnets",
     "AttachLoadBalancerToSubnets", "ApplySecurityGroupsToLoadBalancer",
     "DeleteLoadBalancerListeners", "CreateLoadBalancerListeners", "AddELBTags",
     "RemoveELBTags", "ConfigureHealthCheck", "ModifyLoadBalancerAttributes"}

InitTask(scenarios) ==
    /\ \E sc \in scenarios : e = sc.e /\ e0 = sc.e /\ cloud = sc.cloud
    /\ a = None
    /\ changes = BuildChanges(None, ZeroTask)
    /\ calls = <<>>
    /\ pc = "Unvalidated"
    /\ ret = NoReturn
    /\ tf = <<>>
    /\ lookup = NoLookup
    /\ w = NoWrite
    /\ exec = NoExec
    /\ opts = NoOptions

\* e.Find(c)
FindStep ==
    /\ pc = "Unvalidated"
    /\ \E fail \in FindFailures :
        LET r == Find(e, cloud, fail)
        IN  /\ e' = r.e
            /\ e0' = e
            /\ a' = r.a
            /\ ret' = Returned("Find", r.err, r.panic, None)
            /\ pc' = IF r.panic \/ ~IsNil(r.err) THEN "Failed" ELSE "Discovered"
    /\ UNCHANGED <<changes, cloud, calls, tf, lookup, w, exec, opts>>

\* e.Normalize(c)
NormalizeStep ==
    /\ pc = "Discovered"
    /\ e' = Normalize(e)
    /\ e0' = e
    /\ ret' = Returned("Normalize", None, FALSE, None)
    /\ pc' = "Normalized"
    /\ UNCHANGED <<a, changes, cloud, calls, tf, lookup, w, exec, opts>>

\* the diff of the snapshot against the desired task
DiffStep ==
    /\ pc = "Normalized"
    /\ changes' = BuildChanges(a, e)
    /\ e0' = e
    /\ ret' = Returned("BuildChanges", None, FALSE, None)
    /\ pc' = "Diffed"
    /\ UNCHANGED <<e, a, cloud, calls, tf, lookup, w, exec, opts>>

\* ShouldCreate(a, e, changes)
ShouldCreateStep ==
    /\ pc = "Diffed"
    /\ ret' = Returned("ShouldCreate", None, FALSE, Some(ShouldCreate(a, e, changes)))
    /\ e0' = e
    /\ pc' = "Asked"
    /\ UNCHANGED <<e, a, changes, cloud, calls, tf, lookup, w, exec, opts>>

\* CheckChanges(a, e, changes)
CheckChangesStep ==
    /\ pc = "Asked"
    /\ LET err == CheckChanges(a, e, changes)
       IN  /\ ret' = Returned("CheckChanges", err, FALSE, None)
           /\ pc' = IF IsNil(err) THEN "Validated" ELSE "Failed"
    /\ e0' = e
    /\ UNCHANGED <<e, a, changes, cloud, calls, tf, lookup, w, exec, opts>>

\* RenderAWS(t, a, e, changes)
RenderAWSStep ==
    /\ pc = "Validated"
    /\ \E fail \in RenderFailures : \E order \in Orders(DOMAIN e.Listeners) :
        LET r == RenderAWS(a, e, changes, cloud, fail, order)
        IN  /\ e' = r.e
            /\ cloud' = r.cloud
            /\ calls' = calls \o r.calls
            /\ ret' = Returned("RenderAWS", r.err, FALSE, None)
            /\ pc' = IF IsNil(r.err) THEN "Done" ELSE "Failed"
    /\ e0' = e
    /\ UNCHANGED <<a, changes, tf, lookup, w, exec, opts>>

\* RenderTerraform(t, a, e, changes); a further execution over the same
\* desired state may follow
RenderTerraformStep ==
    /\ \/ pc = "Validated"
       \/ pc \in {"Done", "Failed"} /\ ret.op = "RenderTerraform" /\ Len(tf) < MaxRuns
    /\ \E order \in Orders(DOMAIN e.Listeners) : \E iter \in IterOrders :
        LET r == RenderTerraform(a, e, changes, order, iter)
        IN  /\ tf' = Append(tf, r)
            /\ ret' = Returned("RenderTerraform", r.err, r.panic, None)
            /\ pc' = IF r.panic \/ ~IsNil(r.err) THEN "Failed" ELSE "Done"
    /\ e0' = e
    /\ UNCHANGED <<e, a, changes, cloud, calls, lookup, w, exec, opts>>

NextTask ==
    \/ FindStep
    \/ NormalizeStep
    \/ DiffStep
    \/ ShouldCreateStep
    \/ CheckChangesStep
    \/ RenderAWSStep
    \/ RenderTerraformStep

Init ==
    InitTask(RefScenarios \cup ListenerScenarios \cup IdentityScenarios \cup MissingScenarios)
Next == NextTask
Spec == Init /\ [][Next]_vars

InitCheck == InitTask(CheckScenarios)
SpecCheck == InitCheck /\ [][NextTask]_vars

-----------------------------------------------------------------------------
(* Stand-alone lookups *)

InitLookup ==
    /\ lookup \in Lookups
    /\ e = ZeroTask
    /\ e0 = ZeroTask
    /\ a = None
    /\ changes = BuildChanges(None, ZeroTask)
    /\ cloud = AbsentCloud
    /\ calls = <<>>
    /\ pc = "Lookup"
    /\ ret = NoReturn
    /\ tf = <<>>
    /\ w = NoWrite
    /\ exec = NoExec
    /\ opts = NoOptions

\* findLoadBalancerByLoadBalancerName(ctx, cloud, loadBalancerName)
LookupByName ==
    /\ pc = "Lookup"
    /\ lookup.kind = "name"
    /\ lookup' = [lookup EXCEPT
                     !.out = Some(findLoadBalancerByLoadBalancerName(lookup.listing,
                                                                     lookup.name))]
    /\ pc' = "Looked"
    /\ UNCHANGED <<e, e0, a, changes, cloud, calls, ret, tf, w, exec, opts>>

\* findLoadBalancerByAlias(cloud, alias)
LookupByAlias ==
    /\ pc = "Lookup"
    /\ lookup.kind = "alias"
    /\ lookup' = [lookup EXCEPT
                     !.out = Some(findLoadBalancerByAlias(lookup.listing, lookup.alias))]
    /\ pc' = "Looked"
    /\ UNCHANGED <<e, e0, a, changes, cloud, calls, ret, tf, w, exec, opts>>

NextLookup == LookupByName \/ LookupByAlias
SpecLookup == InitLookup /\ [][NextLookup]_vars

-----------------------------------------------------------------------------
(* The terraform value writer run on its own *)

\* longest list handed to the writer
MaxElems == 2

WriterLiterals ==
    {LiteralProperty("aws_subnet", "s1", "id"), LiteralProperty("aws_subnet", "s2", "id"),
     LiteralFromStringValue("k")}
WriterStrings == {VString("v"), VString("k")}

\* objects with a null attribute, an empty list and a list of literals
WriterObjects ==
    {VObject([k \in {"name", "internal", "subnets"} |->
        CASE k = "name" -> n
          [] k = "internal" -> i
          [] k = "subnets" -> sl]) :
        n \in WriterStrings \cup {VNull},
        i \in {VNull, VBool(TRUE)},
        sl \in {VList(<<>>), VList(<<VLiteral(LiteralProperty("aws_subnet", "s1", "id"))>>)}}

WriterLists ==
    {VList(q) : q \in SeqsUpTo({VLiteral(l) : l \in WriterLiterals}, 0, MaxElems)}
    \cup {VList(q) : q \in SeqsUpTo(WriterStrings \cup {VNumber(80)}, 1, MaxElems)}
    \cup {VList(q) : q \in SeqsUpTo(WriterObjects, 1, MaxElems)}

\* the values a Go map handed to oldWriteMap can hold
MapValues ==
    {VString("v"), VNumber(80), VBool(TRUE),
     VLiteral(LiteralProperty("aws_subnet", "s1", "id")),
     VList(<<VLiteral(LiteralProperty("aws_subnet", "s1", "id")),
             VLiteral(LiteralFromStringValue("k"))>>)}

WriterMaps == UNION {[K -> MapValues] : K \in SUBSET {"a", "b"}}

\* a cty map has one element type
Homogeneous(m) == \A x, y \in DOMAIN m : m[x].t = m[y].t

\* an object holding a list of objects and a map, and an object holding null
\* and empty values only
WriterTrees ==
    {VObject([k \in {"listener", "name", "tags"} |->
        CASE k = "listener" -> l
          [] k = "name" -> VString("v")
          [] k = "tags" -> VMap([t \in {"a", "b"} |-> VString("v")])]) :
        l \in {VList(<<>>)} \cup {VList(<<x, y>>) : x, y \in {o \in WriterObjects :
                                                    o.attrs["internal"] = VNull}}}
    \cup {VObject([k \in {"listener", "name"} |->
             IF k = "listener" THEN VList(<<>>) ELSE VNull])}

WriterValues ==
    {VNull, VNumber(80), VBool(TRUE)} \cup WriterStrings
    \cup {VLiteral(l) : l \in WriterLiterals}
    \cup WriterLists \cup WriterObjects \cup WriterTrees
    \cup {VMap(m) : m \in {x \in WriterMaps : Homogeneous(x)}}

\* the tasks and parameters TerraformLink is called with
Links ==
    {[e |-> [ZeroTask EXCEPT !.Name = n, !.LoadBalancerName = l, !.Shared = sh],
      params |-> ps] :
        n \in {None, Some("api")}, l \in {None, Some("lb1")},
        sh \in {None, Some(FALSE), Some(TRUE)},
        ps \in {<<>>, <<"dns_name">>, <<"zone_id", "id">>}}

Writes ==
    {[kind |-> "value", key |-> "k", value |-> v, outs |-> <<>>] : v \in WriterValues}
    \cup {[kind |-> "map", key |-> "k", value |-> m, outs |-> <<>>] : m \in WriterMaps}
    \cup {[kind |-> "link", key |-> "k", value |-> l, outs |-> <<>>] : l \in Links}

InitWriter ==
    /\ w \in Writes
    /\ e = ZeroTask
    /\ e0 = ZeroTask
    /\ a = None
    /\ changes = BuildChanges(None, ZeroTask)
    /\ cloud = AbsentCloud
    /\ calls = <<>>
    /\ pc = "Write"
    /\ ret = NoReturn
    /\ tf = <<>>
    /\ lookup = NoLookup
    /\ exec = NoExec
    /\ opts = NoOptions

\* writeValue(body, key, value) on an empty body; a further call with the same
\* value may follow
WriteValueStep ==
    /\ pc = "Write"
    /\ w.kind = "value"
    /\ Len(w.outs) < MaxRuns
    /\ \E iter \in IterOrders :
        w' = [w EXCEPT !.outs = Append(@, [iter |-> iter,
                                           body |-> writeValue(<<>>, w.key, w.value, iter)])]
    /\ UNCHANGED <<e, e0, a, changes, cloud, calls, pc, ret, tf, lookup, exec, opts>>

\* oldWriteMap(body, key, values) on an empty body
OldWriteMapStep ==
    /\ pc = "Write"
    /\ w.kind = "map"
    /\ Len(w.outs) < MaxRuns
    /\ \E iter \in IterOrders :
        w' = [w EXCEPT !.outs = Append(@, [iter |-> iter,
                                           body |-> oldWriteMap(<<>>, w.key, w.value, iter)])]
    /\ UNCHANGED <<e, e0, a, changes, cloud, calls, pc, ret, tf, lookup, exec, opts>>

\* e.TerraformLink(params...)
TerraformLinkStep ==
    /\ pc = "Write"
    /\ w.kind = "link"
    /\ w.outs = <<>>
    /\ w' = [w EXCEPT !.outs = <<TerraformLink(w.value.e, w.value.params)>>]
    /\ UNCHANGED <<e, e0, a, changes, cloud, calls, pc, ret, tf, lookup, exec, opts>>

NextWriter == WriteValueStep \/ OldWriteMapStep \/ TerraformLinkStep
SpecWriter == InitWriter /\ [][NextWriter]_vars

-----------------------------------------------------------------------------
(* The dependency executor *)

\* most tasks of one resource graph
MaxTasks == 3
\* most tasks running at the same time
MaxWorkers == 2

Tasks == 1..MaxTasks

\* the acyclic resource graphs: deps[t] are the tasks that task t references,
\* each numbered below t
Graphs == {g \in [Tasks -> SUBSET Tasks] : \A t \in Tasks : \A d \in g[t] : d < t}

\* the tasks that task t depends on, directly or through other tasks
RECURSIVE Reach(_, _)
Reach(x, t) == x.deps[t] \cup UNION {Reach(x, d) : d \in x.deps[t]}

\* a plausible slip: a task is started while a task it references is running
ReadyEarly(x, t) ==
    /\ x.state[t] = "Pending"
    /\ \A d \in x.deps[t] : x.state[d] \in {"Running", "Done"}

\* a plausible slip: a task is started once the tasks it references have ended
ReadyAfterFailed(x, t) ==
    /\ x.state[t] = "Pending"
    /\ \A d \in x.deps[t] : x.state[d] \in {"Done", "Failed"}

\* a task may start: every task it references has reached Done
Ready(x, t) ==
    /\ x.state[t] = "Pending"
    /\ \A d \in x.deps[t] : x.state[d] = "Done"

\* a task must not start: a task it references has reached Failed
Blocked(x, t) ==
    /\ x.state[t] = "Pending"
    /\ \E d \in x.deps[t] : x.state[d] = "Failed"

RunningTasks(x) == {t \in Tasks : x.state[t] = "Running"}
Failures(x) == {t \in Tasks : x.state[t] = "Failed"}

\* every graph, every set of tasks whose reconciliation fails
InitExecutor ==
    /\ \E g \in Graphs : \E fs \in SUBSET Tasks :
        exec = [deps |-> g, fails |-> fs, state |-> [t \in Tasks |-> "Pending"],
                invoked |-> <<>>, reported |-> {}, finished |-> FALSE]
    /\ e = ZeroTask
    /\ e0 = ZeroTask
    /\ a = None
    /\ changes = BuildChanges(None, ZeroTask)
    /\ cloud = AbsentCloud
    /\ calls = <<>>
    /\ pc = "Execute"
    /\ ret = NoReturn
    /\ tf = <<>>
    /\ lookup = NoLookup
    /\ w = NoWrite
    /\ opts = NoOptions

\* a worker takes a task that may start and invokes its reconciliation
StartTask ==
    /\ pc = "Execute"
    /\ Cardinality(RunningTasks(exec)) < MaxWorkers
    /\ \E t \in Tasks :
        /\ Ready(exec, t)
        /\ exec' = [exec EXCEPT !.state[t] = "Running", !.invoked = Append(@, t)]
    /\ UNCHANGED <<e, e0, a, changes, cloud, calls, pc, ret, tf, lookup, w, opts>>

\* the reconciliation of a running task ends: Done, or Failed
FinishTask ==
    /\ pc = "Execute"
    /\ \E t \in RunningTasks(exec) :
        exec' = [exec EXCEPT !.state[t] = IF t \in exec.fails THEN "Failed" ELSE "Done"]
    /\ UNCHANGED <<e, e0, a, changes, cloud, calls, pc, ret, tf, lookup, w, opts>>

\* a task that references a failed task is marked Failed without being started
MarkFailed ==
    /\ pc = "Execute"
    /\ \E t \in Tasks :
        /\ Blocked(exec, t)
        /\ exec' = [exec EXCEPT !.state[t] = "Failed"]
    /\ UNCHANGED <<e, e0, a, changes, cloud, calls, pc, ret, tf, lookup, w, opts>>

\* every task has ended: the run reports the failures
Report ==
    /\ pc = "Execute"
    /\ ~exec.finished
    /\ \A t \in Tasks : exec.state[t] \in {"Done", "Failed"}
    /\ exec' = [exec EXCEPT !.finished = TRUE, !.reported = Failures(exec)]
    /\ UNCHANGED <<e, e0, a, changes, cloud, calls, pc, ret, tf, lookup, w, opts>>

NextExecutor == StartTask \/ FinishTask \/ MarkFailed \/ Report
\* the executor does not stop while a step is possible
SpecExecutor == InitExecutor /\ [][NextExecutor]_vars /\ WF_vars(NextExecutor)

-----------------------------------------------------------------------------
(* The cluster autoscaler options builder *)

\* version strings a cluster spec may carry; the last two name no version
KubernetesVersions ==
    {"1.21.14", "1.22.3", "1.23.4", "v1.24.0", "1.25.1", "1.27.0", "", "latest"}

\* util.ParseKubernetesVersion: the minor number of a version, or an error
ParseKubernetesVersion(version) ==
    CASE version = "1.21.14" -> [Minor |-> 21, err |-> None]
      [] version = "1.22.3"  -> [Minor |-> 22, err |-> None]
      [] version = "1.23.4"  -> [Minor |-> 23, err |-> None]
      [] version = "v1.24.0" -> [Minor |-> 24, err |-> None]
      [] version = "1.25.1"  -> [Minor |-> 25, err |-> None]
      [] version = "1.27.0"  -> [Minor |-> 27, err |-> None]
      [] OTHER -> [Minor |-> 0,
                   err |-> Some(Errorf("unable to parse kubernetes version"))]

\* the image BuildOptions picks for a spec without one
image(KubernetesVersion) ==
    LET v == ParseKubernetesVersion(KubernetesVersion) IN
    IF ~IsNil(v.err) THEN ""
    ELSE CASE v.Minor = 25 -> "registry.k8s.io/autoscaling/cluster-autoscaler:v1.25.0"
           [] v.Minor = 24 -> "registry.k8s.io/autoscaling/cluster-autoscaler:v1.24.0"
           [] v.Minor = 23 -> "registry.k8s.io/autoscaling/cluster-autoscaler:v1.23.1"
           [] v.Minor = 22 -> "registry.k8s.io/autoscaling/cluster-autoscaler:v1.22.3"
           [] v.Minor = 21 -> "registry.k8s.io/autoscaling/cluster-autoscaler:v1.21.3"
           [] OTHER -> "registry.k8s.io/autoscaling/cluster-autoscaler:v1.25.0"

\* BuildOptions writing its defaults over whatever the section holds
BuildOptionsOverwrite(clusterSpec) ==
    LET cas == clusterSpec.ClusterAutoscaler IN
    IF IsNil(cas) \/ ~ValueOfBool(Deref(cas).Enabled)
    THEN [clusterSpec |-> clusterSpec, err |-> None]
    ELSE [clusterSpec |->
            [clusterSpec EXCEPT !.ClusterAutoscaler = Some(
                [Enabled |-> Deref(cas).Enabled,
                 Image |-> Some(image(clusterSpec.KubernetesVersion)),
                 Expander |-> Some("random"),
                 ScaleDownUtilizationThreshold |-> Some("0.5"),
                 SkipNodesWithLocalStorage |-> Some(TRUE),
                 SkipNodesWithSystemPods |-> Some(TRUE),
                 BalanceSimilarNodeGroups |-> Some(FALSE),
                 AWSUseStaticInstanceList |-> Some(FALSE),
                 NewPodScaleUpDelay |-> Some("0s"),
                 ScaleDownDelayAfterAdd |-> Some("10m0s"),
                 ScaleDownUnneededTime |-> Some("10m0s"),
                 ScaleDownUnreadyTime |-> Some("20m0s"),
                 MaxNodeProvisionTime |-> "15m0s",
                 AutoDiscovery |-> Some(FALSE)])],
          err |-> None]
\* ClusterAutoscalerOptionsBuilder.BuildOptions: the spec as the call leaves it
\* and the error it returns
BuildOptions(clusterSpec) ==
    LET cas == clusterSpec.ClusterAutoscaler IN
    IF IsNil(cas) \/ ~ValueOfBool(Deref(cas).Enabled)
    THEN [clusterSpec |-> clusterSpec, err |-> None]
    ELSE LET c == Deref(cas) IN
         [clusterSpec |->
            [clusterSpec EXCEPT !.ClusterAutoscaler = Some(
                [Enabled |-> c.Enabled,
                 Image |->
                    IF IsNil(c.Image)
                    THEN Some(image(clusterSpec.KubernetesVersion)) ELSE c.Image,
                 Expander |->
                    IF IsNil(c.Expander) THEN Some("random") ELSE c.Expander,
                 ScaleDownUtilizationThreshold |->
                    IF IsNil(c.ScaleDownUtilizationThreshold)
                    THEN Some("0.5") ELSE c.ScaleDownUtilizationThreshold,
                 SkipNodesWithLocalStorage |->
                    IF IsNil(c.SkipNodesWithLocalStorage)
                    THEN Some(TRUE) ELSE c.SkipNodesWithLocalStorage,
                 SkipNodesWithSystemPods |->
                    IF IsNil(c.SkipNodesWithSystemPods)
                    THEN Some(TRUE) ELSE c.SkipNodesWithSystemPods,
                 BalanceSimilarNodeGroups |->
                    IF IsNil(c.BalanceSimilarNodeGroups)
                    THEN Some(FALSE) ELSE c.BalanceSimilarNodeGroups,
                 AWSUseStaticInstanceList |->
                    IF IsNil(c.AWSUseStaticInstanceList)
                    THEN Some(FALSE) ELSE c.AWSUseStaticInstanceList,
                 NewPodScaleUpDelay |->
                    IF IsNil(c.NewPodScaleUpDelay)
                    THEN Some("0s") ELSE c.NewPodScaleUpDelay,
                 ScaleDownDelayAfterAdd |->
                    IF IsNil(c.ScaleDownDelayAfterAdd)
                    THEN Some("10m0s") ELSE c.ScaleDownDelayAfterAdd,
                 ScaleDownUnneededTime |->
                    IF IsNil(c.ScaleDownUnneededTime)
                    THEN Some("10m0s") ELSE c.ScaleDownUnneededTime,
                 ScaleDownUnreadyTime |->
                    IF IsNil(c.ScaleDownUnreadyTime)
                    THEN Some("20m0s") ELSE c.ScaleDownUnreadyTime,
                 MaxNodeProvisionTime |->
                    IF c.MaxNodeProvisionTime = ""
                    THEN "15m0s" ELSE c.MaxNodeProvisionTime,
                 AutoDiscovery |->
                    IF IsNil(c.AutoDiscovery) THEN Some(FALSE) ELSE c.AutoDiscovery])],
          err |-> None]

\* the fields of the section that are pointers to a string or to a bool, and
\* the one that is a plain string
StringFields ==
    {"Image", "Expander", "ScaleDownUtilizationThreshold", "NewPodScaleUpDelay",
     "ScaleDownDelayAfterAdd", "ScaleDownUnneededTime", "ScaleDownUnreadyTime"}
BoolFields ==
    {"SkipNodesWithLocalStorage", "SkipNodesWithSystemPods",
     "BalanceSimilarNodeGroups", "AWSUseStaticInstanceList", "AutoDiscovery"}
PlainFields == {"MaxNodeProvisionTime"}

\* a value a user may have written into a field, none of them the default
ExplicitValue(field) ==
    CASE field = "Image" -> Some("example.com/cluster-autoscaler:v9")
      [] field = "Expander" -> Some("least-waste")
      [] field = "ScaleDownUtilizationThreshold" -> Some("0.7")
      [] field \in {"SkipNodesWithLocalStorage", "SkipNodesWithSystemPods"} ->
            Some(FALSE)
      [] field \in BoolFields -> Some(TRUE)
      [] field = "MaxNodeProvisionTime" -> "5m0s"
      [] OTHER -> Some("1m0s")

\* the autoscaler section with exactly the given fields written
ClusterAutoscalerConfig(enabled, explicit) ==
    [f \in StringFields \cup BoolFields \cup PlainFields |->
        IF f \in explicit THEN ExplicitValue(f)
        ELSE IF f \in PlainFields THEN "" ELSE None]
    @@ [Enabled |-> enabled]

\* every version with no section, and with every section: Enabled missing,
\* false or true, and any of the other fields written
InitOptions ==
    /\ \E v \in KubernetesVersions :
        \E cas \in {None} \cup
                {Some(ClusterAutoscalerConfig(en, x)) :
                    en \in {None, Some(FALSE), Some(TRUE)},
                    x \in SUBSET (StringFields \cup BoolFields \cup PlainFields)} :
            opts = [clusterSpec |-> [KubernetesVersion |-> v, ClusterAutoscaler |-> cas],
                    history |-> <<>>, err |-> None]
    /\ e = ZeroTask
    /\ e0 = ZeroTask
    /\ a = None
    /\ changes = BuildChanges(None, ZeroTask)
    /\ cloud = AbsentCloud
    /\ calls = <<>>
    /\ pc = "Options"
    /\ ret = NoReturn
    /\ tf = <<>>
    /\ lookup = NoLookup
    /\ w = NoWrite
    /\ exec = NoExec

\* the loader hands the spec to the builder, again after every change
BuildOptionsStep ==
    /\ pc = "Options"
    /\ Len(opts.history) < MaxRuns
    /\ LET r == BuildOptions(opts.clusterSpec) IN
        opts' = [clusterSpec |-> r.clusterSpec,
                 history |-> Append(opts.history, opts.clusterSpec),
                 err |-> r.err]
    /\ UNCHANGED <<e, e0, a, changes, cloud, calls, pc, ret, tf, lookup, w, exec>>

NextOptions == BuildOptionsStep
SpecOptions == InitOptions /\ [][NextOptions]_vars

-----------------------------------------------------------------------------
(* Properties *)

Shared(t) == ~IsNil(t.Shared) /\ Deref(t.Shared)
CallsOf(op) == SelectSeq(calls, LAMBDA c : c.op = op)
Blocks == UNION {Range(tf[i].blocks) : i \in DOMAIN tf}

\* C1: for a shared task ShouldCreate returns false and RenderAWS and
\* RenderTerraform each return nil having issued no cloud call, changed no
\* field of the desired task and emitted no resource block; for a task that
\* is not shared (flag unset or false) ShouldCreate returns true.
C1_SharedIsReadOnly ==
    /\ ret.op = "ShouldCreate" => ret.val = Some(~Shared(e))
    /\ ret.op \in {"RenderAWS", "RenderTerraform"} /\ Shared(e0) =>
          /\ IsNil(ret.err) /\ ~ret.panic
          /\ calls = <<>>
          /\ e = e0
          /\ Blocks = {}

C1_Witness ==
    ret.op = "RenderAWS" /\ Shared(e0) /\ IsNil(a) /\ pc = "Done"

\* the fields CheckChanges requires on first creation, in the order it checks
\* them, each with the condition under which it is missing
RequiredFields(des) ==
    <<[name |-> "Name", missing |-> des.Name \in {None, Some("")}],
      [name |-> "SecurityGroups", missing |-> ~Shared(des) /\ des.SecurityGroups = <<>>],
      [name |-> "Subnets", missing |-> ~Shared(des) /\ des.Subnets = <<>>],
      [name |-> "Acceslog.Enabled",
       missing |-> des.AccessLog # None /\ des.AccessLog[1].Enabled = None],
      [name |-> "Acceslog.S3Bucket",
       missing |-> des.AccessLog # None /\ des.AccessLog[1].Enabled = Some(TRUE)
                   /\ des.AccessLog[1].S3BucketName = None],
      [name |-> "ConnectionDraining.Enabled",
       missing |-> des.ConnectionDraining # None /\ des.ConnectionDraining[1].Enabled = None],
      [name |-> "CrossZoneLoadBalancing.Enabled",
       missing |-> des.CrossZoneLoadBalancing # None
                   /\ des.CrossZoneLoadBalancing[1].Enabled = None]>>

MissingFields(des) == SelectSeq(RequiredFields(des), LAMBDA f : f.missing)

\* C2: when the snapshot is absent CheckChanges returns the RequiredField
\* error of the first missing field in the order Name, SecurityGroups and
\* Subnets (owned tasks only), AccessLog.Enabled, the access-log bucket,
\* ConnectionDraining.Enabled, CrossZoneLoadBalancing.Enabled, and nil
\* exactly when none is missing.
C2_FirstMissingField ==
    ret.op = "CheckChanges" /\ IsNil(a) =>
        IF MissingFields(e) = <<>> THEN ret.err = None
        ELSE ret.err = Some(RequiredField(MissingFields(e)[1].name))

C2_Witness ==
    /\ ret.op = "CheckChanges" /\ IsNil(a)
    /\ Len(MissingFields(e)) >= 3
    /\ ret.err = Some(RequiredField("Subnets"))

ActualSubnetIds == IF IsNil(a) THEN {} ELSE {ValueOfStr(r.ID) : r \in Range(a[1].Subnets)}
DesiredSubnetIds == {ValueOfStr(r.ID) : r \in Range(e0.Subnets)}
Position(op) == CHOOSE i \in DOMAIN calls : calls[i].op = op

\* C3: on an update whose changes record carries a subnet change, RenderAWS
\* issues DetachLoadBalancerFromSubnets iff actual minus desired is not
\* empty, with exactly those subnets, and then (unless the detach call
\* itself failed and ended the render) AttachLoadBalancerToSubnets iff
\* desired minus actual is not empty, with exactly those subnets; each call
\* is issued at most once and the detach call comes first.
C3_SubnetDeltas ==
    ret.op = "RenderAWS" /\ ~IsNil(a) /\ ~IsNil(changes.Subnets) =>
        LET detach == CallsOf("DetachLoadBalancerFromSubnets")
            attach == CallsOf("AttachLoadBalancerToSubnets")
        IN  /\ Len(detach) = IF ActualSubnetIds \ DesiredSubnetIds # {} THEN 1 ELSE 0
            /\ \A c \in Range(detach) :
                  Range(c.arg.Subnets) = ActualSubnetIds \ DesiredSubnetIds
            /\ Len(attach) = IF /\ DesiredSubnetIds \ ActualSubnetIds # {}
                                /\ \A c \in Range(detach) : c.ok
                             THEN 1 ELSE 0
            /\ \A c \in Range(attach) :
                  Range(c.arg.Subnets) = DesiredSubnetIds \ ActualSubnetIds
            /\ detach # <<>> /\ attach # <<>> =>
                  Position("DetachLoadBalancerFromSubnets")
                      < Position("AttachLoadBalancerToSubnets")

C3_Witness ==
    /\ ret.op = "RenderAWS" /\ ~IsNil(a) /\ ~IsNil(changes.Subnets)
    /\ ActualSubnetIds = {"s1", "s2"} /\ DesiredSubnetIds = {"s2", "s3"}
    /\ \E i, j \in DOMAIN calls :
          /\ i < j
          /\ calls[i].op = "DetachLoadBalancerFromSubnets"
          /\ calls[i].arg.Subnets = <<"s1">>
          /\ calls[j].op = "AttachLoadBalancerToSubnets"
          /\ calls[j].arg.Subnets = <<"s3">>

RemoteListenerPorts ==
    IF IsNil(cloud.lb) THEN {}
    ELSE {l.LoadBalancerPort : l \in Range(cloud.lb[1].ListenerDescriptions)}
DesiredListenerPorts == {ParseInt(k).val : k \in DOMAIN e.Listeners}

\* C4: after a successful RenderAWS of an update whose changes record
\* carries a listener change, the listeners of the remote load balancer are
\* on exactly the desired ports.
C4_ListenersReplaced ==
    ret.op = "RenderAWS" /\ pc = "Done" /\ ~IsNil(a) /\ ~IsNil(changes.Listeners) =>
        RemoteListenerPorts = DesiredListenerPorts

\* C5: when RenderAWS returns an error the desired task is as it was before
\* the call.
C5_NoPartialCommit ==
    ret.op = "RenderAWS" /\ ~IsNil(ret.err) => e = e0

\* C6: a lookup by name that the cloud API answers with LoadBalancerNotFound
\* returns absent and no error; any other API error is returned as an error.
C6_NotFoundIsAbsent ==
    lookup.kind = "name" /\ ~IsNil(lookup.out) /\ ~IsNil(lookup.listing.err) =>
        IF lookup.listing.err[1].detail = "LoadBalancerNotFound"
        THEN lookup.out[1] = [lb |-> None, err |-> None]
        ELSE ~IsNil(lookup.out[1].err)

\* the load balancers of a listing that a lookup is after
LookupMatches ==
    LET all == Flatten(lookup.listing.pages)
        wanted == TrimSuffixDot(ValueOfDNS(lookup.alias.DNSName))
        Named(lb) == lb.LoadBalancerName = Some(lookup.name)
        Aliased(lb) ==
            /\ ValueOfStr(lb.CanonicalHostedZoneNameID) = ValueOfStr(lookup.alias.HostedZoneId)
            /\ wanted \in {TrimSuffixDot(ValueOfDNS(lb.DNSName)),
                           <<"dualstack.">> \o TrimSuffixDot(ValueOfDNS(lb.DNSName))}
    IN  IF lookup.kind = "name" THEN SelectSeq(all, Named) ELSE SelectSeq(all, Aliased)

\* C7: a lookup by name or by alias that collects the matches of every page
\* of the listing (no page failed; a lookup by alias without DNS name is
\* rejected before it lists anything) returns absent and no error when
\* nothing matches, the match when exactly one load balancer matches, and an
\* error and no load balancer when two or more match.
C7_AmbiguousIsError ==
    /\ ~IsNil(lookup.out) /\ IsNil(lookup.listing.err)
    /\ lookup.kind = "alias" => ~IsNil(lookup.alias.DNSName)
    =>  LET out == lookup.out[1]
        IN  CASE Len(LookupMatches) = 0 -> out = [lb |-> None, err |-> None]
              [] Len(LookupMatches) = 1 -> out = [lb |-> Some(LookupMatches[1]), err |-> None]
              [] OTHER -> IsNil(out.lb) /\ ~IsNil(out.err)

C7_Witness ==
    /\ lookup.kind = "name" /\ ~IsNil(lookup.out) /\ IsNil(lookup.listing.err)
    /\ Len(lookup.listing.pages) = 2
    /\ \A i \in 1..2 : \E lb \in Range(lookup.listing.pages[i]) :
          lb.LoadBalancerName = Some(lookup.name)
    /\ ~IsNil(lookup.out[1].err)

\* C8: two executions of RenderTerraform over the same desired state emit
\* the same resource blocks.
C8_RenderDeterministic ==
    \A i, j \in DOMAIN tf : tf[i].blocks = tf[j].blocks

IsPermutation(s, t) ==
    /\ Len(s) = Len(t)
    /\ \A x \in Range(s) \cup Range(t) :
          Cardinality({i \in DOMAIN s : s[i] = x}) = Cardinality({i \in DOMAIN t : t[i] = x})
AscendingById(s) ==
    \A i, j \in DOMAIN s : i < j => ~StrLess(ValueOfStr(s[j].ID), ValueOfStr(s[i].ID))

\* C9: after Normalize the subnet list and the security-group list are each
\* a permutation of what they were, in ascending order of the referenced
\* identifier, and normalizing again leaves the task unchanged.
C9_NormalizeSorts ==
    ret.op = "Normalize" =>
        /\ IsPermutation(e.Subnets, e0.Subnets) /\ AscendingById(e.Subnets)
        /\ IsPermutation(e.SecurityGroups, e0.SecurityGroups)
        /\ AscendingById(e.SecurityGroups)
        /\ Normalize(e) = e

C9_Witness ==
    /\ ret.op = "Normalize"
    /\ e0.SecurityGroups = DesiredRefs(<<"sgB", "sgA">>)
    /\ e.SecurityGroups = DesiredRefs(<<"sgA", "sgB">>)
    /\ e0.Subnets = DesiredRefs(<<"s3", "s1">>)
    /\ e.Subnets = DesiredRefs(<<"s1", "s3">>)

\* C10: when Find finds the remote load balancer (and no cloud call fails)
\* it returns the snapshot, and every identity field the desired task left
\* unset (load balancer name, DNS name, hosted zone id) then has the value
\* found.
C10_Backfill ==
    /\ ret.op = "Find" /\ IsNil(ret.err)
    /\ ~IsNil(cloud.lb) /\ cloud.nameTag = ValueOfStr(e0.Name)
    =>  /\ ~ret.panic /\ ~IsNil(a)
        /\ IsNil(e0.LoadBalancerName) => e.LoadBalancerName = cloud.lb[1].LoadBalancerName
        /\ IsNil(e0.DNSName) => e.DNSName = cloud.lb[1].DNSName
        /\ IsNil(e0.HostedZoneId) => e.HostedZoneId = cloud.lb[1].CanonicalHostedZoneNameID

IdentityFields == {"LoadBalancerName", "DNSName", "HostedZoneId"}
ChangedFields == {f \in DOMAIN e : e[f] # e0[f]}

\* C11 as claimed: Find changes a field of the desired task only if it is an
\* identity field (load balancer name, DNS name, hosted zone id) that was
\* unset, and leaves the task unchanged when it returns no snapshot or an error.
C11_FindFrame ==
    ret.op = "Find" =>
        /\ \A f \in ChangedFields : f \in IdentityFields /\ IsNil(e0[f])
        /\ IsNil(a) \/ ~IsNil(ret.err) => e = e0

\* C11, amended: Find changes only the identity fields and the order of the
\* subnet list. DNS name and hosted zone id change only when they were unset
\* and the load balancer name only when it was unset or differs from the name
\* of the load balancer found, each to the value found; the subnet list
\* changes only into its own ascending order, when it lists the subnets of
\* the load balancer found. Every other field keeps its value, and the task
\* is unchanged when Find returns no snapshot or an error.
C11_FindFrameAmended ==
    ret.op = "Find" =>
        /\ ChangedFields \subseteq IdentityFields \cup {"Subnets"}
        /\ \A f \in ChangedFields \cap {"DNSName", "HostedZoneId"} : IsNil(e0[f])
        /\ "LoadBalancerName" \in ChangedFields =>
              /\ e.LoadBalancerName = cloud.lb[1].LoadBalancerName
              /\ e0.LoadBalancerName # cloud.lb[1].LoadBalancerName
        /\ "DNSName" \in ChangedFields => e.DNSName = cloud.lb[1].DNSName
        /\ "HostedZoneId" \in ChangedFields =>
              e.HostedZoneId = cloud.lb[1].CanonicalHostedZoneNameID
        /\ "Subnets" \in ChangedFields =>
              /\ e.Subnets = SortStableById(e0.Subnets)
              /\ {ValueOfStr(r.ID) : r \in Range(e0.Subnets)} = Range(cloud.lb[1].Subnets)
        /\ IsNil(a) \/ ~IsNil(ret.err) => e = e0

C11_Witness ==
    /\ ret.op = "Find" /\ ~IsNil(a)
    /\ e0.LoadBalancerName = Some("lb0") /\ e.LoadBalancerName = Some("lb1")
    /\ e0.DNSName = Some(<<"api.example.com">>) /\ e.DNSName = e0.DNSName
    /\ IsNil(e0.HostedZoneId) /\ e.HostedZoneId = Some("Z1")

\* the keys of the entries of a body, in the order written
BodyKeys(body) == [i \in DOMAIN body |-> body[i].key]
\* the entry keys of a map attribute, in the order written
MapKeys(tokens) ==
    LET at == SelectSeq([i \in DOMAIN tokens |-> i],
                        LAMBDA i : /\ tokens[i].type = "QuotedLit"
                                   /\ i + 2 <= Len(tokens)
                                   /\ tokens[i + 1].type = "CQuote"
                                   /\ tokens[i + 2].type = "Equal")
    IN  [n \in DOMAIN at |-> tokens[at[n]].bytes]
IsMapAttribute(x) == x.kind = "attribute" /\ x.tokens[1].type = "OBrace"

\* no key of the body, of a block in it or of a map in it precedes an earlier one
RECURSIVE KeysAscending(_)
KeysAscending(body) ==
    /\ \A i, j \in DOMAIN body : i < j => ~StrLess(body[j].key, body[i].key)
    /\ \A i \in DOMAIN body :
        /\ body[i].kind = "block" => KeysAscending(body[i].body)
        /\ IsMapAttribute(body[i]) =>
              \A m, n \in DOMAIN MapKeys(body[i].tokens) :
                  m < n => StrLess(MapKeys(body[i].tokens)[m], MapKeys(body[i].tokens)[n])

IsObjectList(value) ==
    /\ value.t = "list" /\ value.elems # <<>>
    /\ \A i \in DOMAIN value.elems : value.elems[i].t = "object"
Emits(value) ==
    /\ value.t # "null"
    /\ value.t = "list" => value.elems # <<>>
    /\ value.t = "map" => DOMAIN value.entries # {}
\* the body of a block holds the attributes of the object that are neither
\* null nor empty, the strings with their text
MatchesObject(body, attrs) ==
    /\ Range(BodyKeys(body)) = {k \in DOMAIN attrs : Emits(attrs[k])}
    /\ \A k \in DOMAIN attrs : attrs[k].t = "string" =>
          \E i \in DOMAIN body : body[i] = Attribute(k, TokensForValue(attrs[k]))
\* the blocks named key in the body are those of the list, one per element,
\* in list order
OneBlockPerElement(body, key, list) ==
    LET bs == SelectSeq(body, LAMBDA x : x.kind = "block" /\ x.key = key)
    IN  /\ Len(bs) = Len(list)
        /\ \A n \in DOMAIN list : MatchesObject(bs[n].body, list[n].attrs)

\* C12: what the writer emits for a value does not depend on the order in
\* which the keys of its objects and maps are visited: two runs on the same
\* value emit the same body, at every nesting level (the body, the blocks of
\* the objects of a list, the entries of a map) the keys are in ascending
\* order, and a list of objects yields exactly one block per element, in list
\* order.
C12_WriterOrder ==
    pc = "Write" /\ w.kind \in {"value", "map"} =>
        /\ \A i, j \in DOMAIN w.outs : w.outs[i].body = w.outs[j].body
        /\ \A i \in DOMAIN w.outs :
            /\ KeysAscending(w.outs[i].body)
            /\ w.kind = "value" /\ IsObjectList(w.value) =>
                  /\ OneBlockPerElement(w.outs[i].body, w.key, w.value.elems)
                  /\ Len(w.outs[i].body) = Len(w.value.elems)
            /\ w.kind = "value" /\ w.value.t = "object" =>
                  \A k \in DOMAIN w.value.attrs : IsObjectList(w.value.attrs[k]) =>
                      OneBlockPerElement(w.outs[i].body[1].body, k, w.value.attrs[k].elems)

\* an object with a map and a list of two different objects, written twice
\* with the keys visited in opposite orders
C12_Witness ==
    /\ pc = "Write" /\ w.kind = "value" /\ w.value.t = "object"
    /\ "tags" \in DOMAIN w.value.attrs /\ w.value.attrs["tags"].t = "map"
    /\ IsObjectList(w.value.attrs["listener"])
    /\ w.value.attrs["listener"].elems[1] # w.value.attrs["listener"].elems[2]
    /\ Len(w.outs) = 2 /\ w.outs[1].iter # w.outs[2].iter
    /\ Len(w.outs[1].body[1].body) = 4

\* the tokens written for the value of the entry whose key is the n-th of the map
EntryTokens(tokens, n) ==
    LET at == SelectSeq([i \in DOMAIN tokens |-> i],
                        LAMBDA i : /\ tokens[i].type = "QuotedLit"
                                   /\ i + 2 <= Len(tokens)
                                   /\ tokens[i + 1].type = "CQuote"
                                   /\ tokens[i + 2].type = "Equal")
        from == at[n] + 3
        to == CHOOSE x \in from..Len(tokens) :
                  /\ tokens[x].type = "Newline"
                  /\ \A y \in from..(x - 1) : tokens[y].type # "Newline"
    IN  SubSeq(tokens, from, to - 1)
IsLiteralList(value) ==
    value.t = "list" /\ \A i \in DOMAIN value.elems : value.elems[i].t = "literal"
IsQuotedString(tokens) ==
    /\ Len(tokens) = 3
    /\ tokens[1].bytes = "\"" /\ tokens[2].type = "QuotedLit" /\ tokens[3].bytes = "\""

\* C13: a map is written as one attribute holding one entry per key, keys
\* ascending; the value of an entry is written unquoted when it is a literal
\* or a list of literals, and as a quoted string otherwise, whatever its
\* scalar type.
C13_MapEntries ==
    pc = "Write" /\ w.kind = "map" /\ DOMAIN w.value # {} =>
        \A i \in DOMAIN w.outs :
            LET body == w.outs[i].body
                keys == SortStrings(KeysInOrder(DOMAIN w.value, StringOrder))
            IN  /\ Len(body) = 1 /\ IsMapAttribute(body[1]) /\ body[1].key = w.key
                /\ MapKeys(body[1].tokens) = keys
                /\ \A n \in DOMAIN keys :
                      LET v == w.value[keys[n]]
                          ts == EntryTokens(body[1].tokens, n)
                      IN  IF v.t = "literal" THEN ts = <<Token("Ident", v.lit.String)>>
                          ELSE IF IsLiteralList(v)
                          THEN ts = literalListTokens(LiteralsOf(v.elems))
                          ELSE IsQuotedString(ts)

\* the calls issued that change the remote state
MutatingCalls == SelectSeq(calls, LAMBDA c : c.op # "DescribeLoadBalancers")
EndsWithRequiredField ==
    /\ pc = "Failed" /\ ~ret.panic
    /\ ~IsNil(ret.err) /\ Deref(ret.err).type = "RequiredField"

\* C14: whenever the reconciliation of a task ends with a RequiredField
\* error, from CheckChanges, RenderAWS or RenderTerraform, no call that
\* changes the remote state has been issued and no resource block has been
\* emitted.
C14_RequiredFieldNoEffect ==
    EndsWithRequiredField =>
        /\ MutatingCalls = <<>>
        /\ Blocks = {}
        /\ ret.op \in {"CheckChanges", "RenderAWS", "RenderTerraform"}

\* RenderAWS of a task that passed CheckChanges reports the missing load
\* balancer name
C14_Witness ==
    /\ EndsWithRequiredField
    /\ ret.op = "RenderAWS"
    /\ ret.err = Some(RequiredField("LoadBalancerName"))
    /\ calls = <<>>

\* C15: every cloud call of RenderAWS that fails makes RenderAWS return an
\* error: the failed call is the last call issued and the render ends with an
\* error.
C15_FailedCallEndsRender ==
    ret.op = "RenderAWS" =>
        \A i \in DOMAIN calls : ~calls[i].ok => i = Len(calls) /\ ~IsNil(ret.err)

\* C16: the reference to a load balancer task that is not shared is
\* aws_elb.<Name>.<attribute>, the attribute being the first parameter when
\* one is given and id otherwise; the reference to a shared task is the
\* quoted string of its LoadBalancerName.
C16_TerraformLink ==
    pc = "Write" /\ w.kind = "link" /\ w.outs # <<>> =>
        LET des == w.value.e
            params == w.value.params
            r == w.outs[1]
        IN  IF des.Shared = Some(TRUE)
            THEN ~IsNil(des.LoadBalancerName) =>
                    r.lit = Some([String |-> <<"\"", Deref(des.LoadBalancerName), "\"">>])
            ELSE ~IsNil(des.Name) =>
                    r.lit = Some([String |-> <<"aws_elb", ".", Deref(des.Name), ".",
                                               IF params = <<>> THEN "id" ELSE params[1]>>])

\* the reference to an attribute of an owned task
C16_Witness ==
    /\ pc = "Write" /\ w.kind = "link"
    /\ w.value.e.Shared = Some(FALSE) /\ w.value.params = <<"dns_name">>
    /\ w.outs = <<[lit |-> Some([String |-> <<"aws_elb", ".", "api", ".", "dns_name">>]),
                   fatal |-> FALSE, panic |-> FALSE]>>

Invoked == Range(exec.invoked)
\* the run has ended as the failure of task t requires
FailureHandled(t) ==
    /\ exec.finished
    /\ \A u \in Tasks : t \in Reach(exec, u) => exec.state[u] = "Failed" /\ u \notin Invoked
    /\ \A u \in Tasks : (Reach(exec, u) \cup {u}) \cap exec.fails = {} =>
          exec.state[u] = "Done" /\ u \in Invoked
    /\ exec.reported = Failures(exec)
    /\ exec.fails \cap Invoked \subseteq exec.reported

\* C17: once a task has reached Failed, the run ends with every task that
\* depends on it, directly or through other tasks, Failed without having been
\* invoked, with every task that neither fails nor depends on a failing task
\* Done, and with all the failures reported.
C17_FailurePropagates ==
    \A t \in Tasks : (exec.state[t] = "Failed") ~> FailureHandled(t)

\* task 1 failed when run, task 2 depends on it and was never invoked, task 3
\* is independent and ran to Done
C17_Witness ==
    /\ pc = "Execute" /\ exec.finished
    /\ exec.deps[2] = {1} /\ exec.deps[3] = {}
    /\ exec.invoked \in {<<1, 3>>, <<3, 1>>}
    /\ exec.state[1] = "Failed" /\ exec.state[2] = "Failed" /\ exec.state[3] = "Done"
    /\ exec.reported = {1, 2}

\* C18: a task starts only when every task it references has reached Done,
\* whatever the order in which the tasks run.
C18_StartsAfterDependencies ==
    [][\A t \in Tasks :
          exec.state[t] = "Pending" /\ exec'.state[t] = "Running" =>
              \A d \in exec.deps[t] : exec.state[d] = "Done"]_vars

\* task 3 runs after the two tasks it references, which ran at the same time
C18_Witness ==
    /\ pc = "Execute"
    /\ exec.deps[3] = {1, 2} /\ exec.deps[2] = {}
    /\ exec.invoked = <<2, 1, 3>>
    /\ exec.state[1] = "Done" /\ exec.state[2] = "Done" /\ exec.state[3] = "Running"
    /\ exec.fails = {3}

IsEmptyValue(value) == value.t = "null" \/ (value.t = "list" /\ value.elems = <<>>)
BlocksOf(body, key) == SelectSeq(body, LAMBDA x : x.kind = "block" /\ x.key = key)
\* nothing in the body stands for a null value or an empty list written under
\* key, nor in the blocks of the objects written under key
RECURSIVE NothingForEmpty(_, _, _)
NothingForEmpty(body, key, value) ==
    IF IsEmptyValue(value) THEN \A i \in DOMAIN body : body[i].key # key
    ELSE IF value.t = "object"
    THEN /\ Len(BlocksOf(body, key)) = 1
         /\ \A k \in DOMAIN value.attrs :
               NothingForEmpty(BlocksOf(body, key)[1].body, k, value.attrs[k])
    ELSE IF IsObjectList(value)
    THEN /\ Len(BlocksOf(body, key)) = Len(value.elems)
         /\ \A n \in DOMAIN value.elems : \A k \in DOMAIN value.elems[n].attrs :
               NothingForEmpty(BlocksOf(body, key)[n].body, k, value.elems[n].attrs[k])
    ELSE Emits(value) => \E i \in DOMAIN body : body[i].key = key

C20_LiteralTokens ==
    pc = "Write" /\ w.kind = "value" =>
        \A i \in DOMAIN w.outs :
            LET body == w.outs[i].body
                ts == body[1].tokens
                n == Len(w.value.elems)
            IN  /\ w.value.t = "list" /\ w.value.elems # <<>> /\ IsLiteralList(w.value) =>
                    /\ Len(body) = 1 /\ body[1].kind = "attribute" /\ body[1].key = w.key
                    /\ Len(ts) = 2 * n + 1
                    /\ ts[1].type = "OBrack" /\ ts[1].bytes = "["
                    /\ ts[2 * n + 1].type = "CBrack" /\ ts[2 * n + 1].bytes = "]"
                    /\ \A j \in 1..n :
                          /\ ts[2 * j].type = "Ident"
                          /\ ts[2 * j].bytes = w.value.elems[j].lit.String
                    /\ \A j \in 1..(n - 1) :
                          ts[2 * j + 1].type = "Comma" /\ ts[2 * j + 1].bytes = ","
                /\ w.value.t = "literal" =>
                    /\ Len(body) = 1 /\ body[1].kind = "attribute" /\ body[1].key = w.key
                    /\ Len(ts) = 1 /\ ts[1].type = "Ident"
                    /\ ts[1].bytes = w.value.lit.String

\* a list of two different literals, a reference and a quoted string
C20_Witness ==
    /\ pc = "Write" /\ w.kind = "value"
    /\ w.value = VList(<<VLiteral(LiteralProperty("aws_subnet", "s2", "id")),
                         VLiteral(LiteralFromStringValue("k"))>>)
    /\ w.outs # <<>>
    /\ Len(w.outs[1].body[1].tokens) = 5

\* the attribute and block names in the bodies of the resource blocks emitted
EmittedNames == UNION {Range(BodyKeys(b.body)) : b \in Blocks}
Disabled(block) == ~IsNil(block) /\ Deref(block).Enabled = Some(FALSE)

\* C21: RenderTerraform emits the attributes of access logs, connection
\* draining and cross-zone load balancing only for a feature that is enabled:
\* when the feature block of the task is set with Enabled false, the resource
\* block holds no attribute of that feature.
C21_DisabledFeatureOmitted ==
    ret.op = "RenderTerraform" =>
        /\ Disabled(e.AccessLog) => "access_logs" \notin EmittedNames
        /\ Disabled(e.ConnectionDraining) =>
              /\ "connection_draining" \notin EmittedNames
              /\ "connection_draining_timeout" \notin EmittedNames
        /\ Disabled(e.CrossZoneLoadBalancing) =>
              "cross_zone_load_balancing" \notin EmittedNames

\* RenderAWS of a task that is not shared, with no snapshot, issued a call
Creation == ret.op = "RenderAWS" /\ IsNil(a) /\ ~Shared(e0) /\ calls # <<>>
UpdateOnlyCalls ==
    {"DetachLoadBalancerFromSubnets", "AttachLoadBalancerToSubnets",
     "ApplySecurityGroupsToLoadBalancer", "DeleteLoadBalancerListeners",
     "CreateLoadBalancerListeners"}

\* C22: when RenderAWS creates the load balancer, its first call is the one
\* CreateLoadBalancer call and the call after it, issued only when the create
\* succeeded, is the lookup by LoadBalancerName; when the lookup fails or
\* finds nothing RenderAWS returns an error and issues no further call; when
\* it goes on, the task's DNSName is the one of the create response and its
\* HostedZoneId the one of the load balancer found. No detach, attach,
\* security-group or listener call is issued.
C22_CreateThenLookup ==
    Creation =>
        /\ calls[1].op = "CreateLoadBalancer"
        /\ Len(CallsOf("CreateLoadBalancer")) = 1
        /\ ~calls[1].ok => Len(calls) = 1 /\ ~IsNil(ret.err)
        /\ calls[1].ok =>
              /\ Len(calls) >= 2
              /\ calls[2] = Call("DescribeLoadBalancers", ValueOfStr(e0.LoadBalancerName),
                                 calls[2].ok)
              /\ e.DNSName = Some(NewDNSName)
        /\ \/ Len(calls) >= 2 /\ ~calls[2].ok
           \/ ret.err = Some(Errorf("Unable to find newly created ELB"))
           => Len(calls) = 2
        /\ Len(calls) = 2 => ~IsNil(ret.err) /\ e.HostedZoneId = e0.HostedZoneId
        /\ Len(calls) > 2 =>
              /\ calls[2].ok
              /\ e.DNSName = cloud.lb[1].DNSName
              /\ e.HostedZoneId = cloud.lb[1].CanonicalHostedZoneNameID
              /\ e.HostedZoneId = Some(NewHostedZone)
        /\ \A i \in DOMAIN calls : calls[i].op \notin UpdateOnlyCalls

\* the load balancer was created and found again, and the render went on
C22_Witness ==
    /\ Creation /\ IsNil(ret.err)
    /\ e0.HostedZoneId = None /\ e.HostedZoneId = Some(NewHostedZone)
    /\ e.DNSName = Some(NewDNSName)
    /\ Len(calls) > 2 /\ calls[3].op = "AddELBTags"

FirstStepCalls == UpdateOnlyCalls \cup {"CreateLoadBalancer", "DescribeLoadBalancers"}
\* RenderAWS of a task that is not shared got past its create or update step
PastFirstStep ==
    /\ ret.op = "RenderAWS" /\ ~Shared(e0)
    /\ IsNil(ret.err) \/ \E i \in DOMAIN calls : calls[i].op \notin FirstStepCalls
TagRequest ==
    [LoadBalancerName |-> IF IsNil(a) THEN ValueOfStr(e0.LoadBalancerName)
                          ELSE ValueOfStr(Deref(a).LoadBalancerName),
     Tags |-> e0.Tags]

\* C23: every RenderAWS of a task that is not shared that gets past its create
\* or update step issues AddELBTags with the desired tags as the first call
\* after that step and, the tags added, RemoveELBTags with the desired tags
\* as the next call, on the create and on the update path, whatever the
\* changes record holds.
C23_TagsAlwaysReconciled ==
    PastFirstStep =>
        \E i \in DOMAIN calls :
            /\ \A j \in 1..(i - 1) : calls[j].op \in FirstStepCalls
            /\ calls[i].op = "AddELBTags" /\ calls[i].arg = TagRequest
            /\ ~calls[i].ok => i = Len(calls) /\ ~IsNil(ret.err)
            /\ calls[i].ok =>
                  /\ i < Len(calls)
                  /\ calls[i + 1].op = "RemoveELBTags" /\ calls[i + 1].arg = TagRequest
            /\ \A j \in (i + 2)..Len(calls) :
                  calls[j].op \notin {"AddELBTags", "RemoveELBTags"}

\* an update whose changes record holds no change at all
C23_Witness ==
    /\ PastFirstStep /\ ~IsNil(a) /\ IsNil(ret.err)
    /\ changes = BuildChanges(None, ZeroTask)
    /\ calls = <<Call("AddELBTags", TagRequest, TRUE), Call("RemoveELBTags", TagRequest, TRUE)>>

\* Find returned a snapshot
Found == ret.op = "Find" /\ ~ret.panic /\ IsNil(ret.err) /\ ~IsNil(a)
RemoteSubnetIds == cloud.lb[1].Subnets

\* C24: when the subnet ids of the load balancer found are a permutation of
\* the subnet ids of the desired task, the Subnets of the snapshot Find
\* returns are the Subnets of the desired task, and the changes record built
\* from the two holds no Subnets; otherwise the Subnets of the snapshot are
\* the remote ids.
C24_SubnetOrderIsNoChange ==
    /\ Found =>
          IF IsPermutation(RemoteSubnetIds, IdStrings(e0.Subnets))
          THEN /\ Deref(a).Subnets = e.Subnets
               /\ IsNil(BuildChanges(a, e).Subnets)
          ELSE /\ IsPermutation(IdStrings(Deref(a).Subnets), RemoteSubnetIds)
               /\ ~IsNil(BuildChanges(a, e).Subnets)
    /\ ret.op = "BuildChanges" /\ ~IsNil(a) /\ Deref(a).Subnets = e.Subnets =>
          IsNil(changes.Subnets)

\* the desired task lists the remote subnets in another order
C24_Witness ==
    /\ Found
    /\ e0.Subnets = DesiredRefs(<<"s2", "s1">>)
    /\ RemoteSubnetIds = <<"s1", "s2">>
    /\ Deref(a).Subnets = e.Subnets

\* C25: the Tags of the snapshot Find returns are the tags of the load
\* balancer found whose key does not start with aws:cloudformation:, also
\* when the LoadBalancerName of the desired task is not the name of the load
\* balancer found.
C25_SnapshotTags ==
    Found =>
        Deref(a).Tags = Restrict(cloud.tags, {k \in DOMAIN cloud.tags :
                                                ~HasCloudFormationPrefix(k)})

\* C26: with a snapshot present CheckChanges returns nil for every desired
\* task and every changes record, also for a task without subnets or
\* security groups or with a feature block that lacks its Enabled flag.
C26_UpdateNeverRejected ==
    ret.op = "CheckChanges" /\ ~IsNil(a) => IsNil(ret.err) /\ pc = "Validated"

\* an update of a task without subnets and security groups whose feature
\* blocks lack the Enabled flag
C26_Witness ==
    /\ ret.op = "CheckChanges" /\ ~IsNil(a) /\ IsNil(ret.err)
    /\ e.Subnets = <<>> /\ e.SecurityGroups = <<>> /\ ~Shared(e)
    /\ e.AccessLog # None /\ IsNil(Deref(e.AccessLog).Enabled)
    /\ e.ConnectionDraining = Some([Enabled |-> None, Timeout |-> None])
    /\ e.CrossZoneLoadBalancing = Some([Enabled |-> None])

\* the spec before and after the i-th application of the builder
SpecBefore(i) == opts.history[i]
SpecAfter(i) == IF i < Len(opts.history) THEN opts.history[i + 1] ELSE opts.clusterSpec
AutoscalerEnabled(clusterSpec) ==
    /\ ~IsNil(clusterSpec.ClusterAutoscaler)
    /\ Deref(clusterSpec.ClusterAutoscaler).Enabled = Some(TRUE)
\* a field the user left unset: a nil pointer, or the empty plain string
Unset(cas, field) ==
    IF field \in PlainFields THEN cas[field] = "" ELSE IsNil(cas[field])
\* the values the builder may write into a field
DefaultsOf(field) ==
    CASE field = "Image" ->
            {Some(""),
             Some("registry.k8s.io/autoscaling/cluster-autoscaler:v1.25.0"),
             Some("registry.k8s.io/autoscaling/cluster-autoscaler:v1.24.0"),
             Some("registry.k8s.io/autoscaling/cluster-autoscaler:v1.23.1"),
             Some("registry.k8s.io/autoscaling/cluster-autoscaler:v1.22.3"),
             Some("registry.k8s.io/autoscaling/cluster-autoscaler:v1.21.3")}
      [] field = "Expander" -> {Some("random")}
      [] field = "ScaleDownUtilizationThreshold" -> {Some("0.5")}
      [] field \in {"SkipNodesWithLocalStorage", "SkipNodesWithSystemPods"} ->
            {Some(TRUE)}
      [] field \in {"BalanceSimilarNodeGroups", "AWSUseStaticInstanceList",
                    "AutoDiscovery"} -> {Some(FALSE)}
      [] field = "NewPodScaleUpDelay" -> {Some("0s")}
      [] field \in {"ScaleDownDelayAfterAdd", "ScaleDownUnneededTime"} ->
            {Some("10m0s")}
      [] field = "ScaleDownUnreadyTime" -> {Some("20m0s")}
      [] field = "MaxNodeProvisionTime" -> {"15m0s"}

\* C27: the options builder returns no error and leaves the cluster spec as it
\* was when the autoscaler section is absent or not enabled; when the section
\* is enabled it keeps the version and the Enabled flag, leaves every field
\* that was set as it was, and a field that was unset holds one of the
\* builder's defaults afterwards; a second application changes nothing.
C27_DefaultsOnlyForUnset ==
    pc = "Options" =>
        \A i \in DOMAIN opts.history :
            /\ IsNil(opts.err)
            /\ ~AutoscalerEnabled(SpecBefore(i)) => SpecAfter(i) = SpecBefore(i)
            /\ AutoscalerEnabled(SpecBefore(i)) =>
                /\ SpecAfter(i).KubernetesVersion = SpecBefore(i).KubernetesVersion
                /\ AutoscalerEnabled(SpecAfter(i))
                /\ \A f \in StringFields \cup BoolFields \cup PlainFields :
                    LET before == Deref(SpecBefore(i).ClusterAutoscaler)
                        after == Deref(SpecAfter(i).ClusterAutoscaler) IN
                    IF Unset(before, f) THEN after[f] \in DefaultsOf(f)
                    ELSE after[f] = before[f]
            /\ i >= 2 => SpecAfter(i) = SpecAfter(i - 1)

\* an enabled section with the expander written and the image left out, after
\* two applications
C27_Witness ==
    /\ pc = "Options"
    /\ Len(opts.history) = 2
    /\ AutoscalerEnabled(opts.history[1])
    /\ Deref(opts.history[1].ClusterAutoscaler).Expander = Some("least-waste")
    /\ IsNil(Deref(opts.history[1].ClusterAutoscaler).Image)
    /\ opts.clusterSpec # opts.history[1]
    /\ Deref(opts.clusterSpec.ClusterAutoscaler).Expander = Some("least-waste")
    /\ ~IsNil(Deref(opts.clusterSpec.ClusterAutoscaler).Image)

====
